---------------------------- MODULE Spec2Model ----------------------------
(***************************************************************************)
(* A model of cpplog (src/unnamed/part_003, the implementation behind the  *)
(* header src/unnamed/part_002): the delivery queue, the consumer thread,  *)
(* the Logger guard, the emit lock and the sinks written by                *)
(* LogMessage::Emit.                                                       *)
(*                                                                         *)
(* The specifications share the variables:                                 *)
(*   Spec       the threads: producers calling QueueMessage, the consumer  *)
(*              running _ProcessMessageQueue, the main thread running      *)
(*              Init() and ~Logger(), one step per statement that touches  *)
(*              shared state;                                              *)
(*   FairSpec   Spec under fair scheduling of every thread;                *)
(*   SpecSinks  one caller in synchronous mode, whole log calls, with the  *)
(*              flags drawn from small sets: the console, the level files  *)
(*              and their rotation;                                        *)
(*   SpecSpeedTest  log_speed_test.cc: logging with every sink disabled,   *)
(*              then with the console enabled;                             *)
(*   SpecIo     synchronous log calls whose file cannot be opened;         *)
(*   SpecLevels the two parsers of level names;                            *)
(*   SpecFormat, FairSpecFormat  util::log::Format, one step per           *)
(*              statement of its loops;                                    *)
(*   SpecErase  util::log::FormatEraseTags;                                *)
(*   SpecFilename  _GetFilenameToDisplay over source paths and widths;     *)
(*   SpecRender LogMessage::Emit and Log::_GenerateLogMessage: the values  *)
(*              and the lines of one record;                               *)
(*   SpecScope  util::log::ScopedLog and the level and scope switches;     *)
(*   SpecAsync, FairSpecAsync  util::log::Log in asynchronous mode:        *)
(*              _QueueMessage, _ProcessQueuedMessages and Finish();        *)
(*   SpecNoInit a program that logs and never calls cpplog::Init();        *)
(*   FairSpecRunning  Spec while the program runs: fair scheduling of      *)
(*              Init(), the consumer and the producers, none of ~Logger(); *)
(*   SpecQueue  Spec in asynchronous mode with a queue bound of 0;         *)
(*   SpecScopeAsync  util::log::ScopedLog in asynchronous mode: the lines  *)
(*              are rendered by the worker;                                *)
(*   SpecSaved  util::log::Log before and after readiness: the messages    *)
(*              saved by _SaveMessage and replayed by _EmitSavedMessages.  *)
(*                                                                         *)
(* The unsynchronised reads of the code (LOG_MESSAGE_QUEUE.size() and      *)
(* SHUTTING_DOWN are read without a lock) are data races; a racing read    *)
(* returns the value before or the value after the concurrent write, and   *)
(* both outcomes are interleavings of the steps below.                     *)
(***************************************************************************)
EXTENDS Integers, Sequences, FiniteSets, TLC

(***************************************************************************)
(* Bounds of the model.                                                    *)
(***************************************************************************)
\* Log calls made in one behaviour of Spec, over all producers.
MaxRecords == 3
\* The value given to --async_queue_max_len (10000 by default).
QueueMaxLen == 1
\* Log calls made in one behaviour of SpecSinks.
MaxSinkCalls == 5
\* The value given to --logfile_max_size_mb (50 by default), in MiB.
MaxSizeMb == 1

\* The threads that log. The main thread runs Init() and the guard's
\* destructor, the consumer is LOG_EMITTER.
Producers == {"p1", "p2"}
NoThread == "none"
NoMsg == [id |-> 0, by |-> "none", level |-> 0, verbosity |-> 0]
\* No string or level function is being called.
NoCall == [op |-> "none"]

(***************************************************************************)
(* enum Level                                                              *)
(***************************************************************************)
TRACE == 0
DEBUG == 1
INFO == 2
WARNING == 3
ERROR == 4
FATAL == 5
N_LEVELS == 6
Levels == 0..(N_LEVELS - 1)

\* uint32 values, as <<high half, low half>> of 16 bits each (2^32 is more
\* than the checker's integers hold). ToUint32 is the conversion C++ applies
\* to an int compared with a uint32: the value modulo 2^32.
TwoPow16 == 65536
ToUint32(i) ==
  <<IF i < 0 THEN (i \div TwoPow16) + TwoPow16 ELSE i \div TwoPow16,
    i % TwoPow16>>
UintGreater(a, b) == a[1] > b[1] \/ (a[1] = b[1] /\ a[2] > b[2])

VARIABLES
  FLAGS,                \* the gflags read by the code
  LOG_MESSAGE_QUEUE,    \* std::deque<LogMessage>
  SHUTTING_DOWN,        \* bool
  LOG_EMITTER,          \* "nullptr" or "thread"
  INSERT_LOCK,          \* holder of LOG_MESSAGE_QUEUE_INSERT_LOCK
  emit_lock,            \* holder of _DoEmitMessage's static emit_lock
  pc,                   \* position of each producer inside QueueMessage
  msg,                  \* the LogMessage each producer is logging
  cpc,                  \* position of the consumer in _ProcessMessageQueue
  cmsg,                 \* the consumer's local msg
  mpc,                  \* position of the main thread (Init, ~Logger)
  exited,               \* std::exit was called: the process is gone
  cerr,                 \* the lines written to std::cerr, oldest first
  fs,                   \* the files under --logfile_dir: path -> lines
  LOG_FILES,            \* per level: is the ofstream open
  n_calls,              \* log calls made so far
  logged,               \* history: every LogMessage given to QueueMessage
  pushed,               \* history: every record appended to the queue
  sd_mark,              \* history: Len(pushed) when SHUTTING_DOWN was set
  acquired,             \* history: the records in emit_lock.lock() order
  written,              \* history: per level file, every record written
  rotations,            \* history: per level file, rotations done
  fn,                   \* a call of a string or level function: arguments, locals, result
  ulog                  \* util::log::Log (part_004): its statics and the threads using it

threadVars == <<LOG_MESSAGE_QUEUE, SHUTTING_DOWN, LOG_EMITTER, INSERT_LOCK,
                emit_lock, pc, msg, cpc, cmsg, mpc, pushed, sd_mark,
                acquired>>
threadVarsButMpc == <<LOG_MESSAGE_QUEUE, SHUTTING_DOWN, LOG_EMITTER,
                      INSERT_LOCK, emit_lock, pc, msg, cpc, cmsg, pushed,
                      sd_mark, acquired>>
sinkVars == <<cerr, fs, LOG_FILES, written, rotations>>
logVars == <<FLAGS, threadVars, sinkVars, exited, n_calls, logged>>
vars == <<logVars, fn, ulog>>

(***************************************************************************)
(* Level names.                                                            *)
(***************************************************************************)
\* A string is the sequence of its characters.
LowerLetters ==
  <<"a", "b", "c", "d", "e", "f", "g", "h", "i", "j", "k", "l", "m", "n",
     "o", "p", "q", "r", "s", "t", "u", "v", "w", "x", "y", "z">>
UpperLetters ==
  <<"A", "B", "C", "D", "E", "F", "G", "H", "I", "J", "K", "L", "M", "N",
     "O", "P", "Q", "R", "S", "T", "U", "V", "W", "X", "Y", "Z">>
IndexIn(c, letters) ==
  IF \E k \in 1..Len(letters) : letters[k] = c
  THEN CHOOSE k \in 1..Len(letters) : letters[k] = c
  ELSE 0
\* ::toupper and ::tolower on one character.
UpperOf ==
  [c \in {LowerLetters[k] : k \in 1..Len(LowerLetters)} |->
     UpperLetters[IndexIn(c, LowerLetters)]]
LowerOf ==
  [c \in {UpperLetters[k] : k \in 1..Len(UpperLetters)} |->
     LowerLetters[IndexIn(c, UpperLetters)]]
ToUpperChar(c) == IF c \in DOMAIN UpperOf THEN UpperOf[c] ELSE c
ToLowerChar(c) == IF c \in DOMAIN LowerOf THEN LowerOf[c] ELSE c
\* string::ToUpper(s)
ToUpper(s) == [k \in 1..Len(s) |-> ToUpperChar(s[k])]

\* The names the parsers compare with, and the flag values used below.
STR_TRACE == <<"T", "R", "A", "C", "E">>
STR_DEBUG == <<"D", "E", "B", "U", "G">>
STR_INFO == <<"I", "N", "F", "O">>
STR_WARNING == <<"W", "A", "R", "N", "I", "N", "G">>
STR_ERROR == <<"E", "R", "R", "O", "R">>
STR_FATAL == <<"F", "A", "T", "A", "L">>
str_trace == <<"t", "r", "a", "c", "e">>
str_debug == <<"d", "e", "b", "u", "g">>
str_info == <<"i", "n", "f", "o">>
str_Info == <<"I", "n", "f", "o">>
str_warning == <<"w", "a", "r", "n", "i", "n", "g">>
str_error == <<"e", "r", "r", "o", "r">>
str_fatal == <<"f", "a", "t", "a", "l">>
str_bogus == <<"b", "o", "g", "u", "s">>

_StringToLevel(level) ==
  LET level_upper == ToUpper(level) IN
  IF level_upper = STR_TRACE THEN TRACE
  ELSE IF level_upper = STR_DEBUG THEN DEBUG
  ELSE IF level_upper = STR_INFO THEN INFO
  ELSE IF level_upper = STR_WARNING THEN WARNING
  ELSE IF level_upper = STR_ERROR THEN ERROR
  ELSE IF level_upper = STR_FATAL THEN FATAL
  ELSE TRACE

(***************************************************************************)
(* The file system under --logfile_dir. A path is <<level, "cur">> for     *)
(* <logfile_name>.<LEVEL> and <<level, "old">> for its backup; a file is   *)
(* the sequence of lines in it, or NoFile. Every line counts one MiB.      *)
(***************************************************************************)
NoFile == "nofile"
Paths == Levels \X {"cur", "old"}
CurPath(i) == <<i, "cur">>
OldPath(i) == <<i, "old">>
FileSizeMb(f) == IF f = NoFile THEN 0 ELSE Len(f)

\* std::ofstream::open(path): creates the file, or truncates it.
OpenTrunc(files, p) == [files EXCEPT ![p] = <<>>]
\* boost::filesystem::rename(from, to): replaces `to`, removes `from`.
Rename(files, from, to) == [files EXCEPT ![to] = files[from], ![from] = NoFile]

\* A path whose directory (--logfile_dir) does not exist.
NoDir == "nodir"
\* boost::filesystem::create_directories(FLAGS_logfile_dir)
CreateDirectories(files) ==
  [p \in Paths |-> IF files[p] = NoDir THEN NoFile ELSE files[p]]

\* The sinks as one value, for the operators below.
Sinks == [cerr |-> cerr, fs |-> fs, LOG_FILES |-> LOG_FILES,
          written |-> written, rotations |-> rotations]

\* A size check that rotates a file already at the limit.
NeedsRotation_AtLimit(file_size_mb) ==
  file_size_mb >= FLAGS.logfile_max_size_mb

\* Does the size check of Emit ask for a rotation:
\* file_size / 1024.0 / 1024.0 > FLAGS_logfile_max_size_mb
NeedsRotation(file_size_mb) == file_size_mb > FLAGS.logfile_max_size_mb

\* close, rename to .old, open.
Rotate(S, i) ==
  [S EXCEPT !.fs = OpenTrunc(Rename(S.fs, CurPath(i), OldPath(i)), CurPath(i)),
            !.rotations = [@ EXCEPT ![i] = @ + 1]]

\* One iteration of Emit's loop over the level files: file i.
WriteLevelFile(S, m, i) ==
  LET S1 == IF ~S.LOG_FILES[i]
            THEN [S EXCEPT !.fs = OpenTrunc(S.fs, CurPath(i)),
                           !.LOG_FILES = [@ EXCEPT ![i] = TRUE]]
            ELSE S
      S2 == IF NeedsRotation(FileSizeMb(S1.fs[CurPath(i)]))
            THEN Rotate(S1, i)
            ELSE S1
  IN [S2 EXCEPT !.fs = [@ EXCEPT ![CurPath(i)] = Append(@, m)],
                !.written = [@ EXCEPT ![i] = Append(@, m)]]

\* A loop that stops one file short: i < level_.
FileRange_Exclusive(m) ==
  [lo |-> _StringToLevel(FLAGS.min_log_level_file), hi |-> m.level - 1]

\* A loop that starts at the lowest level whatever the file threshold is.
FileRange_FromTrace(m) == [lo |-> TRACE, hi |-> m.level]

\* A loop that cascades upwards, from the record's level to FATAL.
FileRange_Upward(m) ==
  LET min_level == _StringToLevel(FLAGS.min_log_level_file)
  IN [lo |-> IF m.level > min_level THEN m.level ELSE min_level,
      hi |-> FATAL]

\* The bounds of Emit's loop over the level files:
\* for (int i = min_level; i <= level_; i++)
FileRange(m) ==
  [lo |-> _StringToLevel(FLAGS.min_log_level_file), hi |-> m.level]

\* The loop from file i on.
RECURSIVE EmitFiles(_, _, _)
EmitFiles(S, m, i) ==
  IF i > FileRange(m).hi THEN S
  ELSE EmitFiles(WriteLevelFile(S, m, i), m, i + 1)

\* if (verbosity_ > FLAGS_v) return;   an int against a uint32
TooVerbose(m) == UintGreater(ToUint32(m.verbosity), ToUint32(FLAGS.v))

\* A console test that forgets the threshold.
ToConsole_NoThreshold(m) == FLAGS.logtostderr

\* FLAGS_logtostderr && level_ >= _StringToLevel(FLAGS_min_log_level)
ToConsole(m) ==
  FLAGS.logtostderr /\ m.level >= _StringToLevel(FLAGS.min_log_level)

\* LogMessage::Emit
Emit(S, m) ==
  IF TooVerbose(m) THEN S
  ELSE LET S1 == IF ToConsole(m) THEN [S EXCEPT !.cerr = Append(@, m)] ELSE S
       IN IF FLAGS.logtofile
          THEN EmitFiles(S1, m, FileRange(m).lo)
          ELSE S1

\* The sinks after Emit(m).
SinksAfter(S) ==
  /\ cerr' = S.cerr
  /\ fs' = S.fs
  /\ LOG_FILES' = S.LOG_FILES
  /\ written' = S.written
  /\ rotations' = S.rotations

\* _DoEmitMessage's first test.
AnySink == FLAGS.logtofile \/ FLAGS.logtostderr

(***************************************************************************)
(* Initial states.                                                         *)
(***************************************************************************)
InitCpplog ==
  /\ LOG_MESSAGE_QUEUE = <<>>
  /\ SHUTTING_DOWN = FALSE
  /\ LOG_EMITTER = "nullptr"
  /\ INSERT_LOCK = NoThread
  /\ emit_lock = NoThread
  /\ pc = [t \in Producers |-> "idle"]
  /\ msg = [t \in Producers |-> NoMsg]
  /\ cpc = "none"
  /\ cmsg = NoMsg
  /\ mpc = "start"
  /\ exited = FALSE
  /\ cerr = <<>>
  /\ LOG_FILES = [i \in Levels |-> FALSE]
  /\ n_calls = 0
  /\ logged = <<>>
  /\ pushed = <<>>
  /\ sd_mark = 0
  /\ acquired = <<>>
  /\ written = [i \in Levels |-> <<>>]
  /\ rotations = [i \in Levels |-> 0]

\* util::log::Log is not used.
InitLog == InitCpplog /\ ulog = NoCall

InitCommon == InitLog /\ fn = NoCall

\* The flags of log_speed_test.cc: the defaults with --logtostderr, in
\* either mode.
Init ==
  /\ InitCommon
  /\ fs = [p \in Paths |-> NoFile]
  /\ \E async \in BOOLEAN :
       FLAGS = [logtofile |-> FALSE, logtostderr |-> TRUE,
                min_log_level |-> str_info, min_log_level_file |-> str_trace,
                v |-> 0, logfile_max_size_mb |-> MaxSizeMb,
                async_logging |-> async, async_queue_max_len |-> QueueMaxLen]

(***************************************************************************)
(* QueueMessage, called by producer t (the LOG macros construct the        *)
(* LogMessage and pass it). Every step is disabled once std::exit ran.     *)
(***************************************************************************)
\* The levels the producers of Spec log at.
CallLevels == {INFO, FATAL}

\* std::condition_variable::notify_one on LOG_MESSAGE_QUEUE_INSERT: a thread
\* blocked in wait() returns from it and evaluates its predicate again; with
\* no thread blocked the notification is lost.
NotifyOne(c) == IF c = "blocked" THEN "pred" ELSE c

\* A build of _DoEmitMessage that never takes the emit lock.
TakesEmitLock_Never == FALSE

\* if (!FLAGS_async_logging) emit_lock.lock();
TakesEmitLock == ~FLAGS.async_logging

\* A capacity test that lets one more record in.
QueueTooLong_OneMore ==
  Len(LOG_MESSAGE_QUEUE) > FLAGS.async_queue_max_len + 1

\* LOG_MESSAGE_QUEUE.size() > FLAGS_async_queue_max_len
QueueTooLong == Len(LOG_MESSAGE_QUEUE) > FLAGS.async_queue_max_len

\* A consumer that reads back() where the code reads front().
Front_Back(q) == q[Len(q)]

\* LOG_MESSAGE_QUEUE.front() and pop_front()
Front(q) == Head(q)
PopFront(q) == Tail(q)

\* "This should be called in the main() function after parsing arguments
\* but before any log messages ... This can be omitted when using
\* synchronous logging": the callers log once Init() has run.
CallAllowed == FLAGS.async_logging => mpc # "start"

\* LOG(LEVEL, ...): construct the message, enter QueueMessage.
LogCall(t) ==
  /\ ~exited /\ pc[t] = "idle" /\ n_calls < MaxRecords
  /\ \E level \in CallLevels :
       LET m == [id |-> n_calls + 1, by |-> t, level |-> level,
                 verbosity |-> 0]
       IN msg' = [msg EXCEPT ![t] = m] /\ logged' = Append(logged, m)
  /\ n_calls' = n_calls + 1
  /\ pc' = [pc EXCEPT ![t] = IF FLAGS.async_logging THEN "spin" ELSE "doemit"]
  /\ UNCHANGED <<ulog, fn, FLAGS, acquired, LOG_MESSAGE_QUEUE, SHUTTING_DOWN, LOG_EMITTER,
                 INSERT_LOCK, emit_lock, cpc, cmsg, mpc, pushed, sd_mark,
                 sinkVars, exited>>

\* A log call of a program that follows the header: in asynchronous mode
\* it logs after Init().
Call(t) == CallAllowed /\ LogCall(t)

\* while (LOG_MESSAGE_QUEUE.size() > FLAGS_async_queue_max_len) ;
SpinWait(t) ==
  /\ ~exited /\ pc[t] = "spin"
  /\ ~QueueTooLong
  /\ pc' = [pc EXCEPT ![t] = "lock"]
  /\ UNCHANGED <<ulog, fn, FLAGS, logged, acquired, LOG_MESSAGE_QUEUE, SHUTTING_DOWN, LOG_EMITTER,
                 INSERT_LOCK, emit_lock, msg, cpc, cmsg, mpc, pushed, sd_mark,
                 sinkVars, exited, n_calls>>

\* LOG_MESSAGE_QUEUE_INSERT_LOCK.lock();
LockInsert(t) ==
  /\ ~exited /\ pc[t] = "lock"
  /\ INSERT_LOCK = NoThread
  /\ INSERT_LOCK' = t
  /\ pc' = [pc EXCEPT ![t] = "push"]
  /\ UNCHANGED <<ulog, fn, FLAGS, logged, acquired, LOG_MESSAGE_QUEUE, SHUTTING_DOWN, LOG_EMITTER,
                 emit_lock, msg, cpc, cmsg, mpc, pushed, sd_mark,
                 sinkVars, exited, n_calls>>

\* LOG_MESSAGE_QUEUE.push_back(msg); LOG_MESSAGE_QUEUE_INSERT_LOCK.unlock();
PushBack(t) ==
  /\ ~exited /\ pc[t] = "push"
  /\ LOG_MESSAGE_QUEUE' = Append(LOG_MESSAGE_QUEUE, msg[t])
  /\ pushed' = Append(pushed, msg[t])
  /\ INSERT_LOCK' = NoThread
  /\ pc' = [pc EXCEPT ![t] = "notify"]
  /\ UNCHANGED <<ulog, fn, FLAGS, logged, acquired, SHUTTING_DOWN, LOG_EMITTER, emit_lock, msg, cpc, cmsg,
                 mpc, sd_mark, sinkVars, exited, n_calls>>

\* LOG_MESSAGE_QUEUE_INSERT.notify_one();
Notify(t) ==
  /\ ~exited /\ pc[t] = "notify"
  /\ cpc' = NotifyOne(cpc)
  /\ pc' = [pc EXCEPT ![t] = "ret"]
  /\ UNCHANGED <<ulog, fn, FLAGS, logged, acquired, LOG_MESSAGE_QUEUE, SHUTTING_DOWN, LOG_EMITTER,
                 INSERT_LOCK, emit_lock, msg, cmsg, mpc, pushed, sd_mark,
                 sinkVars, exited, n_calls>>

\* _DoEmitMessage(msg), synchronous path: the sink test, then the emit lock.
DoEmitEnter(t) ==
  /\ ~exited /\ pc[t] = "doemit"
  /\ IF ~AnySink
     THEN /\ pc' = [pc EXCEPT ![t] = "ret"]
          /\ UNCHANGED <<emit_lock, acquired>>
     ELSE /\ TakesEmitLock => emit_lock = NoThread
          /\ emit_lock' = IF TakesEmitLock THEN t ELSE emit_lock
          /\ acquired' = IF TakesEmitLock THEN Append(acquired, msg[t])
                                          ELSE acquired
          /\ pc' = [pc EXCEPT ![t] = "emit"]
  /\ UNCHANGED <<ulog, fn, FLAGS, logged, LOG_MESSAGE_QUEUE, SHUTTING_DOWN, LOG_EMITTER,
                 INSERT_LOCK, msg, cpc, cmsg, mpc, pushed, sd_mark,
                 sinkVars, exited, n_calls>>

\* msg.Emit(FLAGS_line_format); if (!FLAGS_async_logging) emit_lock.unlock();
EmitMsg(t) ==
  /\ ~exited /\ pc[t] = "emit"
  /\ SinksAfter(Emit(Sinks, msg[t]))
  /\ emit_lock' = IF TakesEmitLock THEN NoThread ELSE emit_lock
  /\ pc' = [pc EXCEPT ![t] = "ret"]
  /\ UNCHANGED <<ulog, fn, FLAGS, logged, acquired, LOG_MESSAGE_QUEUE, SHUTTING_DOWN, LOG_EMITTER,
                 INSERT_LOCK, msg, cpc, cmsg, mpc, pushed, sd_mark,
                 exited, n_calls>>

\* if (msg.level() == FATAL) std::exit(EXIT_FAILURE); else return.
Return(t) ==
  /\ ~exited /\ pc[t] = "ret"
  /\ IF msg[t].level = FATAL
     THEN exited' = TRUE /\ pc' = [pc EXCEPT ![t] = "exited"]
     ELSE pc' = [pc EXCEPT ![t] = "idle"] /\ UNCHANGED exited
  /\ UNCHANGED <<ulog, fn, FLAGS, logged, acquired, LOG_MESSAGE_QUEUE, SHUTTING_DOWN, LOG_EMITTER,
                 INSERT_LOCK, emit_lock, msg, cpc, cmsg, mpc, pushed, sd_mark,
                 sinkVars, n_calls>>

(***************************************************************************)
(* _ProcessMessageQueue, run by the thread Init() starts.                  *)
(***************************************************************************)
\* while (!SHUTTING_DOWN)
ConsumerOuter ==
  /\ ~exited /\ cpc = "outer"
  /\ cpc' = IF SHUTTING_DOWN THEN "exit" ELSE "pred"
  /\ UNCHANGED <<ulog, fn, FLAGS, logged, acquired, LOG_MESSAGE_QUEUE, SHUTTING_DOWN, LOG_EMITTER,
                 INSERT_LOCK, emit_lock, pc, msg, cmsg, mpc, pushed, sd_mark,
                 sinkVars, exited, n_calls>>

\* wait(lock, pred) is while (!pred()) wait(lock): the predicate is read,
\* and the thread blocks in a later step. The lock is the thread's own
\* local mutex, which no notifier holds.
ConsumerPred ==
  /\ ~exited /\ cpc = "pred"
  /\ cpc' = IF SHUTTING_DOWN \/ Len(LOG_MESSAGE_QUEUE) > 0
            THEN "inner" ELSE "wait"
  /\ UNCHANGED <<ulog, fn, FLAGS, logged, acquired, LOG_MESSAGE_QUEUE, SHUTTING_DOWN, LOG_EMITTER,
                 INSERT_LOCK, emit_lock, pc, msg, cmsg, mpc, pushed, sd_mark,
                 sinkVars, exited, n_calls>>

\* wait(lock): the thread blocks until notified.
ConsumerWait ==
  /\ ~exited /\ cpc = "wait"
  /\ cpc' = "blocked"
  /\ UNCHANGED <<ulog, fn, FLAGS, logged, acquired, LOG_MESSAGE_QUEUE, SHUTTING_DOWN, LOG_EMITTER,
                 INSERT_LOCK, emit_lock, pc, msg, cmsg, mpc, pushed, sd_mark,
                 sinkVars, exited, n_calls>>

\* A spurious wake-up, which wait() allows.
ConsumerSpurious ==
  /\ ~exited /\ cpc = "blocked"
  /\ cpc' = "pred"
  /\ UNCHANGED <<ulog, fn, FLAGS, logged, acquired, LOG_MESSAGE_QUEUE, SHUTTING_DOWN, LOG_EMITTER,
                 INSERT_LOCK, emit_lock, pc, msg, cmsg, mpc, pushed, sd_mark,
                 sinkVars, exited, n_calls>>

\* An inner loop that does not test the size before it takes a record.
ConsumerInner_NoTest ==
  /\ ~exited /\ cpc = "inner"
  /\ cpc' = "lock"
  /\ UNCHANGED <<ulog, fn, FLAGS, logged, acquired, LOG_MESSAGE_QUEUE, SHUTTING_DOWN, LOG_EMITTER,
                 INSERT_LOCK, emit_lock, pc, msg, cmsg, mpc, pushed, sd_mark,
                 sinkVars, exited, n_calls>>

\* while (LOG_MESSAGE_QUEUE.size() > 0)
ConsumerInner ==
  /\ ~exited /\ cpc = "inner"
  /\ cpc' = IF Len(LOG_MESSAGE_QUEUE) > 0 THEN "lock" ELSE "outer"
  /\ UNCHANGED <<ulog, fn, FLAGS, logged, acquired, LOG_MESSAGE_QUEUE, SHUTTING_DOWN, LOG_EMITTER,
                 INSERT_LOCK, emit_lock, pc, msg, cmsg, mpc, pushed, sd_mark,
                 sinkVars, exited, n_calls>>

\* LOG_MESSAGE_QUEUE_INSERT_LOCK.lock();
ConsumerLock ==
  /\ ~exited /\ cpc = "lock"
  /\ INSERT_LOCK = NoThread
  /\ INSERT_LOCK' = "consumer"
  /\ cpc' = "pop"
  /\ UNCHANGED <<ulog, fn, FLAGS, logged, acquired, LOG_MESSAGE_QUEUE, SHUTTING_DOWN, LOG_EMITTER,
                 emit_lock, pc, msg, cmsg, mpc, pushed, sd_mark,
                 sinkVars, exited, n_calls>>

\* auto msg = front(); pop_front(); unlock(). front() of an empty deque is
\* undefined: the thread is then at "ub".
ConsumerPop ==
  /\ ~exited /\ cpc = "pop"
  /\ IF Len(LOG_MESSAGE_QUEUE) = 0
     THEN /\ cpc' = "ub"
          /\ UNCHANGED <<cmsg, LOG_MESSAGE_QUEUE, INSERT_LOCK>>
     ELSE /\ cmsg' = Front(LOG_MESSAGE_QUEUE)
          /\ LOG_MESSAGE_QUEUE' = PopFront(LOG_MESSAGE_QUEUE)
          /\ INSERT_LOCK' = NoThread
          /\ cpc' = "doemit"
  /\ UNCHANGED <<ulog, fn, FLAGS, logged, acquired, SHUTTING_DOWN, LOG_EMITTER, emit_lock, pc, msg, mpc,
                 pushed, sd_mark, sinkVars, exited, n_calls>>

\* _DoEmitMessage(msg) in the consumer: the sink test, then the emit lock.
ConsumerDoEmit ==
  /\ ~exited /\ cpc = "doemit"
  /\ IF ~AnySink
     THEN /\ cpc' = "inner"
          /\ UNCHANGED <<emit_lock, acquired>>
     ELSE /\ TakesEmitLock => emit_lock = NoThread
          /\ emit_lock' = IF TakesEmitLock THEN "consumer" ELSE emit_lock
          /\ acquired' = IF TakesEmitLock THEN Append(acquired, cmsg)
                                          ELSE acquired
          /\ cpc' = "emit"
  /\ UNCHANGED <<ulog, fn, FLAGS, logged, LOG_MESSAGE_QUEUE, SHUTTING_DOWN, LOG_EMITTER,
                 INSERT_LOCK, pc, msg, cmsg, mpc, pushed, sd_mark,
                 sinkVars, exited, n_calls>>

\* msg.Emit(FLAGS_line_format); if (!FLAGS_async_logging) emit_lock.unlock();
ConsumerEmit ==
  /\ ~exited /\ cpc = "emit"
  /\ SinksAfter(Emit(Sinks, cmsg))
  /\ emit_lock' = IF TakesEmitLock THEN NoThread ELSE emit_lock
  /\ cpc' = "inner"
  /\ UNCHANGED <<ulog, fn, FLAGS, logged, acquired, LOG_MESSAGE_QUEUE, SHUTTING_DOWN, LOG_EMITTER,
                 INSERT_LOCK, pc, msg, cmsg, mpc, pushed, sd_mark,
                 exited, n_calls>>

(***************************************************************************)
(* The main thread: auto _ = cpplog::Init(); ... ; ~Logger() at the end of *)
(* the guard's scope (log_speed_test.cc keeps it in a local of main, which *)
(* std::exit does not destroy).                                            *)
(***************************************************************************)
\* Init(): start the thread if --async_logging, make the directory if
\* --logtofile.
InitCall ==
  /\ ~exited /\ mpc = "start"
  /\ IF FLAGS.async_logging
     THEN LOG_EMITTER' = "thread" /\ cpc' = "outer"
     ELSE UNCHANGED <<LOG_EMITTER, cpc>>
  /\ fs' = IF FLAGS.logtofile THEN CreateDirectories(fs) ELSE fs
  /\ mpc' = "run"
  /\ UNCHANGED <<ulog, fn, FLAGS, logged, acquired, LOG_MESSAGE_QUEUE, SHUTTING_DOWN, INSERT_LOCK,
                 emit_lock, pc, msg, cmsg, pushed, sd_mark,
                 cerr, LOG_FILES, written, rotations, exited, n_calls>>

\* ~Logger: SHUTTING_DOWN = true; if (LOG_EMITTER != nullptr) ...
DtorShutdown ==
  /\ ~exited /\ mpc = "run"
  /\ SHUTTING_DOWN' = TRUE
  /\ sd_mark' = Len(pushed)
  /\ mpc' = IF LOG_EMITTER # "nullptr" THEN "notify" ELSE "done"
  /\ UNCHANGED <<ulog, fn, FLAGS, logged, acquired, LOG_MESSAGE_QUEUE, LOG_EMITTER, INSERT_LOCK,
                 emit_lock, pc, msg, cpc, cmsg, pushed,
                 sinkVars, exited, n_calls>>

\* LOG_MESSAGE_QUEUE_INSERT.notify_one();
DtorNotify ==
  /\ ~exited /\ mpc = "notify"
  /\ cpc' = NotifyOne(cpc)
  /\ mpc' = "join"
  /\ UNCHANGED <<ulog, fn, FLAGS, logged, acquired, LOG_MESSAGE_QUEUE, SHUTTING_DOWN, LOG_EMITTER,
                 INSERT_LOCK, emit_lock, pc, msg, cmsg, pushed, sd_mark,
                 sinkVars, exited, n_calls>>

\* LOG_EMITTER->join(); returns once the consumer's function returned.
DtorJoin ==
  /\ ~exited /\ mpc = "join"
  /\ cpc = "exit"
  /\ mpc' = "done"
  /\ UNCHANGED <<ulog, fn, FLAGS, logged, acquired, LOG_MESSAGE_QUEUE, SHUTTING_DOWN, LOG_EMITTER,
                 INSERT_LOCK, emit_lock, pc, msg, cpc, cmsg, pushed, sd_mark,
                 sinkVars, exited, n_calls>>

Producer(t) ==
  \/ Call(t)
  \/ SpinWait(t)
  \/ LockInsert(t)
  \/ PushBack(t)
  \/ Notify(t)
  \/ DoEmitEnter(t)
  \/ EmitMsg(t)
  \/ Return(t)

Consumer ==
  \/ ConsumerOuter
  \/ ConsumerPred
  \/ ConsumerWait
  \/ ConsumerSpurious
  \/ ConsumerInner
  \/ ConsumerLock
  \/ ConsumerPop
  \/ ConsumerDoEmit
  \/ ConsumerEmit

Main ==
  \/ InitCall
  \/ DtorShutdown
  \/ DtorNotify
  \/ DtorJoin

Next ==
  \/ \E t \in Producers : Producer(t)
  \/ Consumer
  \/ Main

Spec == Init /\ [][Next]_vars

\* The steps a thread inside QueueMessage takes on its own: everything but
\* the decision of the program to log once more.
ProducerRun(t) ==
  \/ SpinWait(t)
  \/ LockInsert(t)
  \/ PushBack(t)
  \/ Notify(t)
  \/ DoEmitEnter(t)
  \/ EmitMsg(t)
  \/ Return(t)

\* The steps of _ProcessMessageQueue the scheduler owes the thread: all but
\* the spurious wake-up, which wait() permits and never promises.
ConsumerRun ==
  \/ ConsumerOuter
  \/ ConsumerPred
  \/ ConsumerWait
  \/ ConsumerInner
  \/ ConsumerLock
  \/ ConsumerPop
  \/ ConsumerDoEmit
  \/ ConsumerEmit

\* Fair scheduling: every thread that can run eventually does.
FairSpec ==
  /\ Init /\ [][Next]_vars
  /\ WF_vars(Main)
  /\ WF_vars(ConsumerRun)
  /\ \A t \in Producers : WF_vars(ProducerRun(t))

(***************************************************************************)
(* SpecSinks: one caller, synchronous mode, whole log calls. The flags are *)
(* drawn from small sets; the level names include a mixed-case one and one *)
(* that is no level name.                                                  *)
(***************************************************************************)
ConsoleThresholds == {str_info, STR_WARNING}
FileThresholds == {str_trace, str_Info, str_bogus}
Verbosities == {0, 1}
\* The (level, verbosity) pairs logged: LOG_TRACE, LOG_INFO, LOG_FATAL and
\* two VLOG calls.
SinkInputs == {<<TRACE, 0>>, <<INFO, 0>>, <<FATAL, 0>>, <<INFO, 1>>,
               <<DEBUG, -1>>}

\* What an earlier run of the program left in a level file: more lines than
\* the size limit allows.
Leftover == <<>> \o [j \in 1..(MaxSizeMb + 1) |-> NoMsg]

InitSinks ==
  /\ InitCommon
  /\ \E left \in BOOLEAN :
       fs = [p \in Paths |->
               IF left /\ p = CurPath(TRACE) THEN Leftover ELSE NoFile]
  /\ \E tofile \in BOOLEAN, tostderr \in BOOLEAN,
        cl \in ConsoleThresholds, fl \in FileThresholds, v \in Verbosities :
       FLAGS = [logtofile |-> tofile, logtostderr |-> tostderr,
                min_log_level |-> cl, min_log_level_file |-> fl,
                v |-> v, logfile_max_size_mb |-> MaxSizeMb,
                async_logging |-> FALSE, async_queue_max_len |-> QueueMaxLen]

\* QueueMessage(msg) with --async_logging off, from call to return:
\* _DoEmitMessage (sink test, emit lock, Emit, unlock), then the FATAL exit.
SinkLog ==
  /\ ~exited /\ n_calls < MaxSinkCalls
  /\ \E in \in SinkInputs :
       LET m == [id |-> n_calls + 1, by |-> "p1", level |-> in[1],
                 verbosity |-> in[2]]
       IN /\ msg' = [msg EXCEPT !["p1"] = m]
          /\ logged' = Append(logged, m)
          /\ IF AnySink
             THEN SinksAfter(Emit(Sinks, m)) /\ acquired' = Append(acquired, m)
             ELSE UNCHANGED <<sinkVars, acquired>>
          /\ exited' = (m.level = FATAL)
  /\ n_calls' = n_calls + 1
  /\ UNCHANGED <<ulog, fn, FLAGS, LOG_MESSAGE_QUEUE, SHUTTING_DOWN, LOG_EMITTER,
                 INSERT_LOCK, emit_lock, pc, cpc, cmsg, mpc, pushed, sd_mark>>

NextSinks == SinkLog

SpecSinks == InitSinks /\ [][NextSinks]_vars

(***************************************************************************)
(* Helpers of the properties.                                              *)
(***************************************************************************)
Count(r, seq) == Cardinality({j \in 1..Len(seq) : seq[j] = r})
InSeq(r, seq) == \E j \in 1..Len(seq) : seq[j] = r

\* The record the consumer has popped and not yet written.
InFlight == IF cpc \in {"doemit", "emit"} THEN <<cmsg>> ELSE <<>>

\* The threads executing LogMessage::Emit.
InEmit ==
  {t \in Producers : pc[t] = "emit"}
    \cup (IF cpc = "emit" THEN {"consumer"} ELSE {})

\* The record a thread holding the emit lock is writing.
Emitting ==
  IF emit_lock \in Producers /\ pc[emit_lock] = "emit"
  THEN <<msg[emit_lock]>> ELSE <<>>

(***************************************************************************)
(* C1: in asynchronous mode, when ~Logger has returned, every record that  *)
(* was appended to the queue before SHUTTING_DOWN was set has been written *)
(* to the sinks exactly once.                                              *)
(***************************************************************************)
C1_DrainedAtShutdown ==
  (FLAGS.async_logging /\ mpc = "done")
    => \A k \in 1..sd_mark : Count(pushed[k], cerr) = 1

(***************************************************************************)
(* C2: in asynchronous mode the records are written in the order they were *)
(* appended to the queue (what is written, what the consumer holds and     *)
(* what is queued make up the append history, in order), and two records   *)
(* of one producer are written in the order of their log calls.            *)
(***************************************************************************)
C2_FifoOrder ==
  FLAGS.async_logging =>
    /\ cerr \o InFlight \o LOG_MESSAGE_QUEUE = pushed
    /\ \A j, k \in 1..Len(cerr) :
         (j < k /\ cerr[j].by = cerr[k].by) => cerr[j].id < cerr[k].id

\* Two records of one producer have been written by the consumer, after a
\* record of another producer was appended between them.
C2_Witness ==
  /\ FLAGS.async_logging
  /\ Len(cerr) = 3
  /\ cerr[1].by = cerr[3].by
  /\ cerr[2].by # cerr[1].by

(***************************************************************************)
(* C3: when the process has terminated through a FATAL record, that record *)
(* has been written to the sinks.                                          *)
(***************************************************************************)
C3_FatalWrittenBeforeExit ==
  exited => \A t \in Producers : pc[t] = "exited" => InSeq(msg[t], cerr)

(***************************************************************************)
(* C4: the destructor terminates under fair scheduling: once ~Logger has   *)
(* set SHUTTING_DOWN and is about to notify, its join eventually returns   *)
(* (or a FATAL record has ended the process first).                        *)
(***************************************************************************)
C4_DestructorReturns == (mpc = "notify") ~> (mpc = "done" \/ exited)

(***************************************************************************)
(* C5: the queue never holds more than async_queue_max_len records.        *)
(***************************************************************************)
C5_QueueWithinCapacity ==
  Len(LOG_MESSAGE_QUEUE) <= FLAGS.async_queue_max_len

(***************************************************************************)
(* C6: at most one thread executes LogMessage::Emit at any instant; in     *)
(* synchronous mode the records are written in the order their callers     *)
(* acquired the emit lock, and in asynchronous mode only the consumer      *)
(* writes.                                                                 *)
(***************************************************************************)
C6_OneWriter ==
  /\ Cardinality(InEmit) <= 1
  /\ ~FLAGS.async_logging => cerr \o Emitting = acquired
  /\ FLAGS.async_logging => InEmit \subseteq {"consumer"}

\* Synchronous mode: a caller is writing while another waits for the lock,
\* after an earlier record was written.
C6_Witness ==
  /\ ~FLAGS.async_logging
  /\ Len(cerr) >= 1
  /\ \E t, u \in Producers :
       t # u /\ pc[t] = "emit" /\ pc[u] = "doemit" /\ emit_lock = t

\* The records among `logged` whose call has returned or ended the process:
\* in SpecSinks every logged record.
Delivered(r) == AnySink /\ ~TooVerbose(r)
FileThreshold == _StringToLevel(FLAGS.min_log_level_file)
ConsoleThreshold == _StringToLevel(FLAGS.min_log_level)
IsSuffix(a, b) ==
  Len(a) <= Len(b) /\ a = SubSeq(b, Len(b) - Len(a) + 1, Len(b))

(***************************************************************************)
(* C7: with file logging enabled, a record of level L that passes the      *)
(* verbosity filter is written (once) to the level file of every level i   *)
(* with file threshold <= i <= L, and to no other level file.              *)
(***************************************************************************)
C7_FilesOfRecord ==
  FLAGS.logtofile =>
    \A k \in 1..Len(logged) : \A i \in Levels :
      Count(logged[k], written[i]) =
        IF /\ ~TooVerbose(logged[k])
           /\ FileThreshold <= i
           /\ i <= logged[k].level
        THEN 1 ELSE 0

\* An INFO record went to the files with the threshold at INFO: it is in
\* the INFO file alone; and a record was dropped for its verbosity.
C7_Witness ==
  /\ FLAGS.logtofile /\ FileThreshold = INFO
  /\ \E k \in 1..Len(logged) :
       /\ logged[k].level = INFO
       /\ InSeq(logged[k], written[INFO])
       /\ ~InSeq(logged[k], written[DEBUG])
       /\ ~InSeq(logged[k], written[WARNING])
  /\ \E k \in 1..Len(logged) : TooVerbose(logged[k])

(***************************************************************************)
(* C8, as the specification states it: with file logging enabled and the   *)
(* file threshold at TRACE, the FATAL level file holds every record that   *)
(* was delivered and the TRACE level file holds only TRACE records.        *)
(***************************************************************************)
C8_FatalFileHoldsAll ==
  (FLAGS.logtofile /\ FileThreshold = TRACE) =>
    /\ \A k \in 1..Len(logged) :
         Delivered(logged[k]) => InSeq(logged[k], written[FATAL])
    /\ \A j \in 1..Len(written[TRACE]) : written[TRACE][j].level = TRACE

(***************************************************************************)
(* C8, amended: with file logging enabled and the file threshold at TRACE, *)
(* every delivered record has been written to the TRACE level file (the    *)
(* file holds the latest of them, the earlier ones were rotated out), and  *)
(* the FATAL level file holds only FATAL records.                          *)
(***************************************************************************)
C8_TraceFileHoldsAll ==
  (FLAGS.logtofile /\ FileThreshold = TRACE) =>
    /\ \A k \in 1..Len(logged) :
         Delivered(logged[k]) => Count(logged[k], written[TRACE]) = 1
    /\ LOG_FILES[TRACE] => IsSuffix(fs[CurPath(TRACE)], written[TRACE])
    /\ \A j \in 1..Len(written[FATAL]) : written[FATAL][j].level = FATAL
    /\ LOG_FILES[FATAL] => fs[CurPath(FATAL)] = written[FATAL]

\* A TRACE, an INFO and a FATAL record were delivered: the TRACE file got
\* all three, the FATAL file the last one.
C8_Witness ==
  /\ FLAGS.logtofile /\ FileThreshold = TRACE
  /\ Len(written[TRACE]) >= 3
  /\ Len(written[FATAL]) = 1
  /\ \E j, k \in 1..Len(written[TRACE]) :
       written[TRACE][j].level = TRACE /\ written[TRACE][k].level = INFO

(***************************************************************************)
(* C9: for each level file, a write that finds the file larger than the    *)
(* configured maximum is preceded by exactly one rotation: the backup then *)
(* holds exactly the content the file had (replacing the previous backup)  *)
(* and the file holds the new record alone; any other write does not       *)
(* rotate, leaves the backup alone and appends the record. The size is the *)
(* one the check reads: the first write of the process opens the file      *)
(* empty, whatever an earlier run left in it.                              *)
(***************************************************************************)
WriteStep(i) ==
  LET m == msg'["p1"]
      before == IF LOG_FILES[i] THEN fs[CurPath(i)] ELSE <<>>
  IN IF FileSizeMb(before) > FLAGS.logfile_max_size_mb
     THEN /\ rotations'[i] = rotations[i] + 1
          /\ fs'[OldPath(i)] = before
          /\ fs'[CurPath(i)] = <<m>>
     ELSE /\ rotations'[i] = rotations[i]
          /\ fs'[OldPath(i)] = fs[OldPath(i)]
          /\ fs'[CurPath(i)] = Append(before, m)

C9_RotateOncePerOverflow ==
  [][\A i \in Levels :
       IF written'[i] # written[i]
       THEN WriteStep(i)
       ELSE /\ rotations'[i] = rotations[i]
            /\ fs'[CurPath(i)] = fs[CurPath(i)]
            /\ fs'[OldPath(i)] = fs[OldPath(i)]]_vars

\* The TRACE file was rotated twice: the second backup replaced the first,
\* and the write after the first rotation did not rotate.
C9_Witness ==
  /\ rotations[TRACE] = 2
  /\ Len(written[TRACE]) = 2 * (MaxSizeMb + 1) + 1
  /\ fs[OldPath(TRACE)] =
       SubSeq(written[TRACE], MaxSizeMb + 2, 2 * (MaxSizeMb + 1))
  /\ Len(fs[CurPath(TRACE)]) = 1

DisabledCalls == MaxRecords - 1

\* FLAGS_logtostderr = false;
TestDisable ==
  /\ ~exited /\ mpc = "run" /\ n_calls = 0
  /\ FLAGS' = [FLAGS EXCEPT !.logtostderr = FALSE]
  /\ mpc' = "disabled"
  /\ UNCHANGED <<ulog, fn, threadVarsButMpc, sinkVars, exited, n_calls, logged>>

\* LOG_INFO(...) inside the test: DisabledCalls of them before the sinks
\* are enabled again, the rest afterwards.
TestLog ==
  /\ \/ mpc = "disabled" /\ n_calls < DisabledCalls
     \/ mpc = "enabled"
  /\ Call("p1")

\* while (cpplog::MessagesInQueue() > 0) ;  left when size() is read as 0.
TestObserveEmpty ==
  /\ ~exited /\ mpc = "disabled"
  /\ pc["p1"] = "idle" /\ n_calls = DisabledCalls
  /\ Len(LOG_MESSAGE_QUEUE) = 0
  /\ mpc' = "enable"
  /\ UNCHANGED <<ulog, fn, FLAGS, threadVarsButMpc, sinkVars, exited, n_calls, logged>>

\* FLAGS_logtostderr = true;
TestEnable ==
  /\ ~exited /\ mpc = "enable"
  /\ FLAGS' = [FLAGS EXCEPT !.logtostderr = TRUE]
  /\ mpc' = "enabled"
  /\ UNCHANGED <<ulog, fn, threadVarsButMpc, sinkVars, exited, n_calls, logged>>

\* The test function returns to main, which returns: ~Logger follows.
TestReturn ==
  /\ ~exited /\ mpc = "enabled"
  /\ pc["p1"] = "idle" /\ n_calls = MaxRecords
  /\ mpc' = "run"
  /\ UNCHANGED <<ulog, fn, FLAGS, threadVarsButMpc, sinkVars, exited, n_calls, logged>>

TestMain ==
  \/ InitCall
  \/ TestDisable
  \/ TestLog
  \/ TestObserveEmpty
  \/ TestEnable
  \/ TestReturn
  \/ (n_calls > 0 /\ DtorShutdown)
  \/ DtorNotify
  \/ DtorJoin

NextSpeedTest ==
  \/ TestMain
  \/ ProducerRun("p1")
  \/ Consumer

\* main() has parsed the flags and set FLAGS_logtostderr = true; either mode.
SpecSpeedTest == Init /\ [][NextSpeedTest]_vars

(***************************************************************************)
(* Synchronous logging to files whose directory may be missing: Init(),    *)
(* which creates it, "can be omitted when using synchronous logging"       *)
(* (part_002). std::ofstream::open then fails without throwing and         *)
(* boost::filesystem::file_size throws filesystem_error, which leaves      *)
(* Emit, _DoEmitMessage and QueueMessage and reaches the caller of the LOG *)
(* macro: pc = "threw". The caller handles it (and goes on) or does not    *)
(* (std::terminate).                                                       *)
(***************************************************************************)
\* The first iteration of Emit's loop over the level files throws: the
\* stream is closed, open() creates nothing, file_size() finds no file.
EmitThrows(m) ==
  /\ ~TooVerbose(m)
  /\ FLAGS.logtofile
  /\ FileRange(m).lo <= FileRange(m).hi
  /\ ~LOG_FILES[FileRange(m).lo]
  /\ fs[CurPath(FileRange(m).lo)] = NoDir

\* msg.Emit(...) in the caller's thread; when it throws, the console line
\* is already written and emit_lock.unlock() is not reached.
EmitIo(t) ==
  IF EmitThrows(msg[t])
  THEN /\ ~exited /\ pc[t] = "emit"
       /\ cerr' = IF ToConsole(msg[t]) THEN Append(cerr, msg[t]) ELSE cerr
       /\ pc' = [pc EXCEPT ![t] = "threw"]
       /\ UNCHANGED <<ulog, fn, FLAGS, logged, acquired, LOG_MESSAGE_QUEUE,
                      SHUTTING_DOWN, LOG_EMITTER, INSERT_LOCK, emit_lock, msg,
                      cpc, cmsg, mpc, pushed, sd_mark, fs, LOG_FILES, written,
                      rotations, exited, n_calls>>
  ELSE EmitMsg(t)

\* The exception is caught by the caller of the LOG macro, which goes on.
Caught(t) ==
  /\ ~exited /\ pc[t] = "threw"
  /\ pc' = [pc EXCEPT ![t] = "idle"]
  /\ UNCHANGED <<ulog, fn, FLAGS, logged, acquired, LOG_MESSAGE_QUEUE, SHUTTING_DOWN,
                 LOG_EMITTER, INSERT_LOCK, emit_lock, msg, cpc, cmsg, mpc,
                 pushed, sd_mark, sinkVars, exited, n_calls>>

\* Nothing catches it: std::terminate.
Uncaught(t) ==
  /\ ~exited /\ pc[t] = "threw"
  /\ pc' = [pc EXCEPT ![t] = "terminated"]
  /\ exited' = TRUE
  /\ UNCHANGED <<ulog, fn, FLAGS, logged, acquired, LOG_MESSAGE_QUEUE, SHUTTING_DOWN,
                 LOG_EMITTER, INSERT_LOCK, emit_lock, msg, cpc, cmsg, mpc,
                 pushed, sd_mark, sinkVars, n_calls>>

ProducerIo(t) ==
  \/ Call(t)
  \/ DoEmitEnter(t)
  \/ EmitIo(t)
  \/ Caught(t)
  \/ Uncaught(t)
  \/ Return(t)

\* --logtofile, synchronous, the directory not made yet.
InitIo ==
  /\ InitCommon
  /\ fs = [p \in Paths |-> NoDir]
  /\ \E tostderr \in BOOLEAN, fl \in FileThresholds :
       FLAGS = [logtofile |-> TRUE, logtostderr |-> tostderr,
                min_log_level |-> str_info, min_log_level_file |-> fl,
                v |-> 0, logfile_max_size_mb |-> MaxSizeMb,
                async_logging |-> FALSE, async_queue_max_len |-> QueueMaxLen]

NextIo ==
  \/ InitCall
  \/ \E t \in Producers : ProducerIo(t)

SpecIo == InitIo /\ [][NextIo]_vars

(***************************************************************************)
(* The two level parsers, as functions of a name: _StringToLevel of cpplog *)
(* (part_003), which reads the threshold flags, and Log::StringToLogLevel  *)
(* of util::log (part_004). fn holds the call: op, arg, pc, result.        *)
(***************************************************************************)
\* std::transform(..., ::tolower)
ToLower(s) == [k \in 1..Len(s) |-> ToLowerChar(s[k])]

\* What a parser hands back: a level, or an exception.
Returned(level) == [thrown |-> FALSE, value |-> level]
\* throw new std::invalid_argument("Unknown log level");
ThrownInvalidArgument == [thrown |-> TRUE, value |-> -1]

\* Log::StringToLogLevel(level)
StringToLogLevel(level) ==
  LET level_lower == ToLower(level) IN
  IF level_lower = str_trace THEN Returned(TRACE)
  ELSE IF level_lower = str_debug THEN Returned(DEBUG)
  ELSE IF level_lower = str_info THEN Returned(INFO)
  ELSE IF level_lower = str_warning THEN Returned(WARNING)
  ELSE IF level_lower = str_error THEN Returned(ERROR)
  ELSE IF level_lower = str_fatal THEN Returned(FATAL)
  ELSE ThrownInvalidArgument

\* The names given to the parsers: every level name in four spellings, and
\* names that are no level.
KnownNames == {str_trace, str_debug, str_info, str_warning, str_error,
               str_fatal}
Spellings(s) ==
  { s,
    [k \in 1..Len(s) |-> IF k = 1 THEN UpperOf[s[k]] ELSE s[k]],
    [k \in 1..Len(s) |-> IF k = Len(s) THEN UpperOf[s[k]] ELSE s[k]],
    [k \in 1..Len(s) |-> UpperOf[s[k]]] }
UnknownNames ==
  { <<>>, str_bogus, <<"w", "a", "r", "n">>, <<"i", "n", "f">>,
    <<"t", "r", "a", "c", "e", "e">>, <<"t", "r", "a", "c", "e", " ">>,
    <<" ", "i", "n", "f", "o">>, <<"0">>, <<"2">>, <<"e", "r", "r">>,
    <<"F", "A", "T", "A", "L", "!">>, <<"v", "e", "r", "b", "o", "s", "e">> }
LevelNames == UNION {Spellings(s) : s \in KnownNames} \cup UnknownNames

DefaultFlags ==
  [logtofile |-> FALSE, logtostderr |-> FALSE,
   min_log_level |-> str_info, min_log_level_file |-> str_trace,
   v |-> 0, logfile_max_size_mb |-> MaxSizeMb,
   async_logging |-> FALSE, async_queue_max_len |-> QueueMaxLen]

InitLevels ==
  /\ InitLog
  /\ fs = [p \in Paths |-> NoFile]
  /\ FLAGS = DefaultFlags
  /\ \E op \in {"_StringToLevel", "StringToLogLevel"}, name \in LevelNames :
       fn = [op |-> op, arg |-> name, pc |-> "call", result |-> Returned(-1)]

\* _StringToLevel(arg) is called and returns.
CallStringToLevel ==
  /\ fn.op = "_StringToLevel" /\ fn.pc = "call"
  /\ fn' = [fn EXCEPT !.pc = "done",
                      !.result = Returned(_StringToLevel(fn.arg))]
  /\ UNCHANGED <<logVars, ulog>>

\* Log::StringToLogLevel(arg) is called and returns or throws.
CallStringToLogLevel ==
  /\ fn.op = "StringToLogLevel" /\ fn.pc = "call"
  /\ fn' = [fn EXCEPT !.pc = "done", !.result = StringToLogLevel(fn.arg)]
  /\ UNCHANGED <<logVars, ulog>>

NextLevels == CallStringToLevel \/ CallStringToLogLevel

SpecLevels == InitLevels /\ [][NextLevels]_vars

(***************************************************************************)
(* util::log::Format (format.cc). fn holds one call, statement by          *)
(* statement: the arguments fmt and args, the order in which this run      *)
(* iterates the unordered_map, the locals i (position in that order),      *)
(* location and result, and pc. A second call with the same arguments and  *)
(* another iteration order follows the first: `first` keeps what the first *)
(* returned.                                                               *)
(***************************************************************************)
\* Pieces a template is made of.
MaxPieces == 3

\* "{" + pair.first + "}"
Key(name) == <<"{">> \o name \o <<"}">>

\* s.find(key): the first position where key occurs, 0 for npos.
Find(s, key) ==
  LET At(k) == k + Len(key) - 1 <= Len(s) /\ SubSeq(s, k, k + Len(key) - 1) = key
  IN IF \E k \in 1..Len(s) : At(k)
     THEN CHOOSE k \in 1..Len(s) : At(k) /\ \A j \in 1..(k - 1) : ~At(j)
     ELSE 0

\* s.replace(location, n, value)
Replace(s, location, n, value) ==
  SubSeq(s, 1, location - 1) \o value \o SubSeq(s, location + n, Len(s))

\* The arguments tried.
Names == {<<"a">>, <<"b">>}
Values == {<<"x">>, <<>>, <<"b">>, <<"{", "a", "}">>, <<"{", "b", "}">>}
Pieces == {<<"{", "a", "}">>, <<"{", "b", "}">>, <<"{", "z", "}">>,
           <<"x">>, <<"{">>, <<"}">>}
RECURSIVE TemplatesOf(_)
TemplatesOf(n) ==
  IF n = 0 THEN {<<>>}
  ELSE TemplatesOf(n - 1) \cup
       {t \o q : t \in TemplatesOf(n - 1), q \in Pieces}
Templates == TemplatesOf(MaxPieces)
ArgMaps == UNION {[D -> Values] : D \in SUBSET Names}
\* The orders in which an unordered_map with these keys can be iterated.
Orders(keys) ==
  {o \in [1..Cardinality(keys) -> keys] :
     \A j, k \in 1..Cardinality(keys) : j # k => o[j] # o[k]}

NoResult == <<"(", "n", "o", "n", "e", ")">>

InitFormat ==
  /\ InitLog
  /\ fs = [p \in Paths |-> NoFile]
  /\ FLAGS = DefaultFlags
  /\ \E fmt \in Templates, args \in ArgMaps :
       \E order \in Orders(DOMAIN args), second \in Orders(DOMAIN args) :
         fn = [op |-> "Format", fmt |-> fmt, args |-> args, order |-> order,
               second |-> second, run |-> 1, i |-> 1, location |-> 0,
               result |-> fmt, first |-> NoResult, pc |-> "for"]

\* for (const auto& pair : args) { key = ...; location = result.find(key);
\* or, past the last pair, return result;
FormatFor ==
  /\ fn.op = "Format" /\ fn.pc = "for"
  /\ fn' = IF fn.i > Len(fn.order)
           THEN [fn EXCEPT !.pc = "done"]
           ELSE [fn EXCEPT !.location = Find(fn.result, Key(fn.order[fn.i])),
                           !.pc = "while"]
  /\ UNCHANGED <<logVars, ulog>>

\* while (location != std::string::npos)
FormatWhile ==
  /\ fn.op = "Format" /\ fn.pc = "while"
  /\ fn' = IF fn.location # 0
           THEN [fn EXCEPT !.pc = "replace"]
           ELSE [fn EXCEPT !.i = @ + 1, !.pc = "for"]
  /\ UNCHANGED <<logVars, ulog>>

\* result.replace(location, key.length(), pair.second);
FormatReplace ==
  /\ fn.op = "Format" /\ fn.pc = "replace"
  /\ LET name == fn.order[fn.i]
     IN fn' = [fn EXCEPT !.result = Replace(fn.result, fn.location,
                                            Len(Key(name)), fn.args[name]),
                         !.pc = "find"]
  /\ UNCHANGED <<logVars, ulog>>

\* location = result.find(key);
FormatFind ==
  /\ fn.op = "Format" /\ fn.pc = "find"
  /\ fn' = [fn EXCEPT !.location = Find(fn.result, Key(fn.order[fn.i])),
                      !.pc = "while"]
  /\ UNCHANGED <<logVars, ulog>>

\* Format is called again with the same fmt and args; the map is iterated
\* in the order `second`.
FormatAgain ==
  /\ fn.op = "Format" /\ fn.pc = "done" /\ fn.run = 1
  /\ fn' = [fn EXCEPT !.first = fn.result, !.run = 2, !.order = fn.second,
                      !.i = 1, !.location = 0, !.result = fn.fmt,
                      !.pc = "for"]
  /\ UNCHANGED <<logVars, ulog>>

NextFormat ==
  \/ FormatFor
  \/ FormatWhile
  \/ FormatReplace
  \/ FormatFind
  \/ FormatAgain

SpecFormat == InitFormat /\ [][NextFormat]_vars

\* A call that can take a step takes it.
FairSpecFormat == InitFormat /\ [][NextFormat]_vars /\ WF_vars(NextFormat)

(***************************************************************************)
(* util::log::FormatEraseTags (format.cc): std::regex_replace of every     *)
(* match of \{[a-zA-Z0-9]+\} by the empty string, in one pass from left to *)
(* right over the argument.                                                *)
(***************************************************************************)
\* The longest argument tried, in characters.
MaxEraseLen == 5

Digits == {"0", "1", "2", "3", "4", "5", "6", "7", "8", "9"}
\* [a-zA-Z0-9]
IsAlnum(c) == c \in DOMAIN UpperOf \/ c \in DOMAIN LowerOf \/ c \in Digits

\* A tag pattern that also takes the empty name: \{[a-zA-Z0-9]*\}
MatchEnd_EmptyName(s, k) ==
  IF s[k] # "{" THEN 0
  ELSE LET stop == IF \E e \in (k + 1)..Len(s) : ~IsAlnum(s[e])
                   THEN CHOOSE e \in (k + 1)..Len(s) :
                          /\ ~IsAlnum(s[e])
                          /\ \A j \in (k + 1)..(e - 1) : IsAlnum(s[j])
                   ELSE 0
       IN IF stop > k /\ s[stop] = "}" THEN stop ELSE 0

\* The regex matched at position k of s: the position of the closing brace
\* of the match, 0 when there is no match starting at k.
MatchEnd(s, k) ==
  IF s[k] # "{" THEN 0
  ELSE LET stop == IF \E e \in (k + 1)..Len(s) : ~IsAlnum(s[e])
                   THEN CHOOSE e \in (k + 1)..Len(s) :
                          /\ ~IsAlnum(s[e])
                          /\ \A j \in (k + 1)..(e - 1) : IsAlnum(s[j])
                   ELSE 0
       IN IF stop > k + 1 /\ s[stop] = "}" THEN stop ELSE 0

\* regex_replace from position k on: the text before the next match is
\* copied, the match is replaced by "", the search goes on after the match.
RECURSIVE EraseFrom(_, _)
EraseFrom(s, k) ==
  IF k > Len(s) THEN <<>>
  ELSE IF MatchEnd(s, k) # 0 THEN EraseFrom(s, MatchEnd(s, k) + 1)
       ELSE <<s[k]>> \o EraseFrom(s, k + 1)

FormatEraseTags(fmt) == EraseFrom(fmt, 1)

\* The arguments tried: every string of up to MaxEraseLen characters over
\* braces, a letter of each case, a digit and a character that is none of
\* these; the line "{nc}hi{bold}"; and "{a{b}c}", a tag inside braces.
EraseChars == {"{", "}", "a", "Z", "0", "-"}
EraseInputs ==
  UNION {[1..n -> EraseChars] : n \in 0..MaxEraseLen}
    \cup {<<"{", "n", "c", "}", "h", "i", "{", "b", "o", "l", "d", "}">>,
          <<"{", "a", "{", "b", "}", "c", "}">>}

InitErase ==
  /\ InitLog
  /\ fs = [p \in Paths |-> NoFile]
  /\ FLAGS = DefaultFlags
  /\ \E fmt \in EraseInputs :
       fn = [op |-> "FormatEraseTags", arg |-> fmt, pc |-> "call",
             result |-> NoResult]

\* FormatEraseTags(arg) is called and returns.
CallFormatEraseTags ==
  /\ fn.op = "FormatEraseTags" /\ fn.pc = "call"
  /\ fn' = [fn EXCEPT !.pc = "done", !.result = FormatEraseTags(fn.arg)]
  /\ UNCHANGED <<logVars, ulog>>

NextErase == CallFormatEraseTags

SpecErase == InitErase /\ [][NextErase]_vars

(***************************************************************************)
(* _GetFilenameToDisplay (part_003; Log::_GetFilenameToDisplay of part_004 *)
(* is the same code): the base name of the source file padded or shortened *)
(* to --max_filename_len characters, a colon, and the line number padded   *)
(* to --max_line_number_len characters.                                    *)
(***************************************************************************)
\* The longest stem tried, and the largest --max_filename_len tried.
MaxStemLen == 8
MaxWidth == 10
\* DEFINE_uint32(max_line_number_len, 4, ...)
max_line_number_len == 4

\* std::string(n, ' ')
Spaces(n) == [k \in 1..n |-> " "]
\* The last position of character c in s, 0 when s has none.
LastIndexOf(s, c) ==
  IF \E k \in 1..Len(s) : s[k] = c
  THEN CHOOSE k \in 1..Len(s) : s[k] = c /\ \A j \in (k + 1)..Len(s) : s[j] # c
  ELSE 0
\* boost::filesystem::path(file).filename(): what follows the last slash.
Filename(file) == SubSeq(file, LastIndexOf(file, "/") + 1, Len(file))
\* path::extension(): from the last dot of the file name to its end, the
\* dot included; empty when there is no dot, and for "." and "..".
Extension(name) ==
  IF name = <<".">> \/ name = <<".", ".">> \/ LastIndexOf(name, ".") = 0
  THEN <<>>
  ELSE SubSeq(name, LastIndexOf(name, "."), Len(name))
\* path::stem(): the file name without its extension.
StemOf(name) == SubSeq(name, 1, Len(name) - Len(Extension(name)))

DigitOf == <<"0", "1", "2", "3", "4", "5", "6", "7", "8", "9">>
\* std::to_string(n), for n >= 0
RECURSIVE to_string(_)
to_string(n) ==
  IF n < 10 THEN <<DigitOf[n + 1]>>
  ELSE to_string(n \div 10) \o <<DigitOf[(n % 10) + 1]>>

\* s.substr(pos, n) for pos <= s.size(): at most n characters from offset
\* pos, fewer when s ends before.
Substr(s, pos, n) ==
  SubSeq(s, pos + 1, IF pos + n < Len(s) THEN pos + n ELSE Len(s))

\* std::out_of_range, thrown by substr when pos > size()
ThrownOutOfRange == [thrown |-> TRUE, value |-> <<>>]
ReturnedString(s) == [thrown |-> FALSE, value |-> s]

\* The local `filename` when the line number is reached. chars_left is
\* uint32 - size_t converted to int: for the lengths here, the difference.
FilenameLocal(file, max_filename_len) ==
  LET filename == Filename(file)
      fname == StemOf(filename)
      ext == Extension(filename)
      chars_left == max_filename_len - (Len(ext) + 3 + 1 + 2)
  IN IF Len(filename) <= max_filename_len
     THEN ReturnedString(Spaces(max_filename_len - Len(filename)) \o filename)
     ELSE IF chars_left <= 0
     THEN ReturnedString(Substr(fname, 0, max_filename_len))
     ELSE IF Len(fname) < 2
     THEN ThrownOutOfRange
     ELSE ReturnedString(Substr(fname, 0, chars_left) \o <<".", ".", ".">>
                           \o Substr(fname, Len(fname) - 2, Len(fname))
                           \o <<".">> \o ext)

\* The padded line number.
LineNumberLocal(line) ==
  LET line_number == to_string(line) IN
  IF Len(line_number) < max_line_number_len
  THEN line_number \o Spaces(max_line_number_len - Len(line_number))
  ELSE line_number

_GetFilenameToDisplay(line, file, max_filename_len) ==
  LET filename == FilenameLocal(file, max_filename_len) IN
  IF filename.thrown THEN filename
  ELSE ReturnedString(filename.value \o <<":">> \o LineNumberLocal(line))

\* The arguments tried: a directory or none, a stem of letters, one of the
\* endings below; and "a_very_long_filename.cc".
SourceDirs == {<<>>, <<"d", ".", "x", "/">>}
SourceStems == UNION {[1..n -> {"a", "b"}] : n \in 0..MaxStemLen}
SourceEndings ==
  {<<>>, <<".">>, <<".", "c">>, <<".", "c", "c">>, <<".", "b", ".", "c">>}
a_very_long_filename_cc ==
  <<"a", "_", "v", "e", "r", "y", "_", "l", "o", "n", "g", "_",
    "f", "i", "l", "e", "n", "a", "m", "e", ".", "c", "c">>
SourceFiles ==
  ({d \o s \o e : d \in SourceDirs, s \in SourceStems, e \in SourceEndings}
     \ SourceDirs)
    \cup {a_very_long_filename_cc}
SourceLines == {7, 12345}

InitFilename ==
  /\ InitLog
  /\ fs = [p \in Paths |-> NoFile]
  /\ FLAGS = DefaultFlags
  /\ \E file \in SourceFiles, line \in SourceLines, w \in 0..MaxWidth :
       fn = [op |-> "_GetFilenameToDisplay", line |-> line, file |-> file,
             max_filename_len |-> w, pc |-> "call",
             result |-> ReturnedString(NoResult)]

\* _GetFilenameToDisplay(line, file) is called and returns or throws.
CallGetFilenameToDisplay ==
  /\ fn.op = "_GetFilenameToDisplay" /\ fn.pc = "call"
  /\ fn' = [fn EXCEPT !.pc = "done",
                      !.result = _GetFilenameToDisplay(fn.line, fn.file,
                                                       fn.max_filename_len)]
  /\ UNCHANGED <<logVars, ulog>>

NextFilename == CallGetFilenameToDisplay

SpecFilename == InitFilename /\ [][NextFilename]_vars

(***************************************************************************)
(* Rendering a line: LogMessage::Emit(line_fmt) of part_003, from its      *)
(* verbosity test to the lines it hands to std::cerr and to the level      *)
(* files, and Log::_GenerateLogMessage of part_004. The text is rendered   *)
(* here; which files the line goes to is the subject of SpecSinks.         *)
(***************************************************************************)
\* The character \033.
ESC == "ESC"
\* The escape sequences of format.cc.
Reset == <<ESC, "[", "0", "m">>
Bold == <<ESC, "[", "1", "m">>
Italic == <<ESC, "[", "3", "m">>
Black == <<ESC, "[", "3", "0", "m">>
Red == <<ESC, "[", "3", "1", "m">>
Green == <<ESC, "[", "3", "2", "m">>
Yellow == <<ESC, "[", "3", "3", "m">>
Blue == <<ESC, "[", "3", "4", "m">>
Magenta == <<ESC, "[", "3", "5", "m">>
Cyan == <<ESC, "[", "3", "6", "m">>
White == <<ESC, "[", "3", "7", "m">>
Gray == Black \o Bold

\* The tag names.
tag_message == <<"m", "e", "s", "s", "a", "g", "e">>
tag_file == <<"f", "i", "l", "e">>
tag_datetime == <<"d", "a", "t", "e", "t", "i", "m", "e">>
tag_level == <<"l", "e", "v", "e", "l">>
tag_thread == <<"t", "h", "r", "e", "a", "d">>
tag_indent == <<"i", "n", "d", "e", "n", "t">>
tag_lc == <<"l", "c">>
tag_nc == <<"n", "c">>
tag_bold == <<"b", "o", "l", "d">>
tag_italic == <<"i", "t", "a", "l", "i", "c">>
tag_black == <<"b", "l", "a", "c", "k">>
tag_red == <<"r", "e", "d">>
tag_green == <<"g", "r", "e", "e", "n">>
tag_yellow == <<"y", "e", "l", "l", "o", "w">>
tag_blue == <<"b", "l", "u", "e">>
tag_magenta == <<"m", "a", "g", "e", "n", "t", "a">>
tag_cyan == <<"c", "y", "a", "n">>
tag_white == <<"w", "h", "i", "t", "e">>
tag_gray == <<"g", "r", "a", "y">>

\* const std::unordered_map<std::string, std::string> ColorMapping
ColorMapping ==
  [n \in {tag_nc, tag_bold, tag_italic, tag_black, tag_red, tag_green,
          tag_yellow, tag_blue, tag_magenta, tag_cyan, tag_white, tag_gray} |->
     CASE n = tag_nc -> Reset
       [] n = tag_bold -> Bold
       [] n = tag_italic -> Italic
       [] n = tag_black -> Black
       [] n = tag_red -> Red
       [] n = tag_green -> Green
       [] n = tag_yellow -> Yellow
       [] n = tag_blue -> Blue
       [] n = tag_magenta -> Magenta
       [] n = tag_cyan -> Cyan
       [] n = tag_white -> White
       [] n = tag_gray -> Gray]

\* _LevelToString(level), Log::_GetLevelString(level)
_LevelToString(level) ==
  CASE level = TRACE -> <<"T">>
    [] level = DEBUG -> <<"D">>
    [] level = INFO -> <<"I">>
    [] level = WARNING -> <<"W">>
    [] level = ERROR -> <<"E">>
    [] level = FATAL -> <<"F">>
    [] OTHER -> <<"?">>

\* _GetColor(level), Log::_GetLevelColor(level), built for Linux
_GetColor(level) ==
  CASE level \in {TRACE, DEBUG} -> Gray
    [] level = INFO -> Blue \o Bold
    [] level = WARNING -> Yellow \o Bold
    [] level \in {ERROR, FATAL} -> Red \o Bold
    [] OTHER -> <<>>

\* _GetTimeString(log_time), Log::_GetDatetimeString(): the instant as
\* --datetime_format shows it. Instants are small numbers here and the
\* format shows their digits, so that two instants never look alike.
_GetTimeString(log_time) == <<"t">> \o to_string(log_time)

\* DEFINE_uint32(max_filename_len, 20, ...)
max_filename_len == 20
\* DEFINE_int32(scoped_logging_indent, 2, ...)
scoped_logging_indent == 2

\* FormatHasTag(fmt, tag)
FormatHasTag(fmt, tag) == Find(fmt, Key(tag)) # 0

\* Format(fmt, args) of format.cc when the pairs of args are visited in
\* the given order, for arguments on which its loops end.
RECURSIVE FormatPair(_, _, _)
FormatPair(result, key, value) ==
  IF Find(result, key) = 0 THEN result
  ELSE FormatPair(Replace(result, Find(result, key), Len(key), value),
                  key, value)
RECURSIVE FormatPairs(_, _, _, _)
FormatPairs(result, args, order, i) ==
  IF i > Len(order) THEN result
  ELSE FormatPairs(FormatPair(result, Key(order[i]), args[order[i]]),
                   args, order, i + 1)
FormatIn(fmt, args, order) == FormatPairs(fmt, args, order, 1)
\* string::FormatMap(fmt, args, true) of //util/string: every {name} of fmt
\* whose name is bound is replaced by its value, in one pass from left to
\* right; what a value brings in is not scanned again.
RECURSIVE FormatMapFrom(_, _, _)
FormatMapFrom(fmt, args, k) ==
  IF k > Len(fmt) THEN <<>>
  ELSE LET here == {n \in DOMAIN args :
                      /\ k + Len(Key(n)) - 1 <= Len(fmt)
                      /\ SubSeq(fmt, k, k + Len(Key(n)) - 1) = Key(n)}
       IN IF here # {}
          THEN LET n == CHOOSE n \in here : TRUE
               IN args[n] \o FormatMapFrom(fmt, args, k + Len(Key(n)))
          ELSE <<fmt[k]>> \o FormatMapFrom(fmt, args, k + 1)
FormatMap(fmt, args) == FormatMapFrom(fmt, args, 1)

\* string::FormatTrimTags(s) of //util/string: the tags are erased as
\* FormatEraseTags erases them.
FormatTrimTags(s) == FormatEraseTags(s)

\* No line was handed to the stream.
NoLine == <<"(", "n", "o", " ", "l", "i", "n", "e", ")">>

\* The values LogMessage::Emit binds, whatever line_fmt holds.
EmitParams(m, thread) ==
  (tag_message :> m.msg_format)
    @@ (tag_file :> _GetFilenameToDisplay(m.line, m.file, max_filename_len).value)
    @@ (tag_datetime :> _GetTimeString(m.log_time))
    @@ (tag_level :> _LevelToString(m.level))
    @@ (tag_thread :> thread)

\* The text side of LogMessage::Emit(line_fmt): the values computed and the
\* lines handed to std::cerr and to the level files. The record carries no
\* format arguments, so string::Format leaves msg_format_ as it is.
EmitLines(m, line_fmt, colorize_output, thread) ==
  IF TooVerbose(m)
  THEN [computed |-> {}, to_cerr |-> NoLine, to_file |-> NoLine]
  ELSE LET line_formatted == FormatMap(line_fmt, EmitParams(m, thread))
           line_color ==
             IF colorize_output
             THEN FormatMap(line_formatted,
                            ColorMapping @@ (tag_lc :> _GetColor(m.level)))
             ELSE line_formatted
       IN [computed |-> DOMAIN EmitParams(m, thread),
           to_cerr |-> IF ToConsole(m) THEN FormatTrimTags(line_color)
                       ELSE NoLine,
           to_file |-> IF FLAGS.logtofile /\ FileRange(m).lo <= FileRange(m).hi
                       THEN FormatTrimTags(line_formatted)
                       ELSE NoLine]

\* The params of Log::_GenerateLogMessage: a value is computed under the
\* test for its tag.
GenerateParams(m, log_fmt, now, _scoped_level) ==
  [n \in {t \in {tag_level, tag_datetime, tag_file, tag_message, tag_indent} :
            FormatHasTag(log_fmt, t)} |->
     CASE n = tag_level -> _LevelToString(m.level)
       [] n = tag_datetime -> _GetTimeString(now)
       [] n = tag_file ->
            _GetFilenameToDisplay(m.line, m.file, max_filename_len).value
       [] n = tag_message -> m.msg_format
       [] n = tag_indent -> Spaces(_scoped_level * scoped_logging_indent)]

\* The templates and records tried.
LineFormats ==
  {Key(tag_message),
   Key(tag_lc) \o Key(tag_level) \o Key(tag_nc) \o <<" ">> \o Key(tag_message),
   Key(tag_file) \o <<" ">> \o Key(tag_message),
   Key(tag_datetime) \o <<" ">> \o Key(tag_level),
   Key(tag_bold) \o Key(tag_message) \o Key(tag_nc),
   Key(tag_indent) \o Key(tag_message),
   <<"x">>}
MessageTexts ==
  {<<"h", "i">>,
   Key(tag_red) \o <<"h", "i">> \o Key(tag_nc),
   <<"{", "a">> \o Key(<<"b">>) \o <<"c", "}">>,
   <<"{", "n">> \o Key(tag_nc) \o <<"c", "}">>}
log_cc == <<"s", "r", "c", "/", "l", "o", "g", ".", "c", "c">>
RenderedRecords ==
  {[id |-> 1, by |-> "p1", level |-> l, verbosity |-> v, line |-> 42,
    file |-> f, log_time |-> 1, msg_format |-> text] :
     l \in {INFO, ERROR}, v \in Verbosities,
     f \in {log_cc, a_very_long_filename_cc}, text \in MessageTexts}

InitRender ==
  /\ InitLog
  /\ fs = [p \in Paths |-> NoFile]
  /\ FLAGS = [DefaultFlags EXCEPT !.logtostderr = TRUE, !.logtofile = TRUE]
  /\ \E op \in {"Emit", "_GenerateLogMessage"}, m \in RenderedRecords,
        line_fmt \in LineFormats, colorize_output \in BOOLEAN :
       fn = [op |-> op, m |-> m, line_fmt |-> line_fmt,
             colorize_output |-> colorize_output, pc |-> "call",
             computed |-> {}, result |-> NoResult,
             to_cerr |-> NoLine, to_file |-> NoLine]

\* msg.Emit(FLAGS_line_format), from call to return.
CallEmit ==
  /\ fn.op = "Emit" /\ fn.pc = "call"
  /\ LET out == EmitLines(fn.m, fn.line_fmt, fn.colorize_output, <<"7">>)
     IN fn' = [fn EXCEPT !.pc = "done", !.computed = out.computed,
                         !.to_cerr = out.to_cerr, !.to_file = out.to_file]
  /\ UNCHANGED <<logVars, ulog>>

\* Log::_GenerateLogMessage(level, line, file, message), from call to
\* return, at instant 2 and scope depth 1; the map is visited in any order.
CallGenerateLogMessage ==
  /\ fn.op = "_GenerateLogMessage" /\ fn.pc = "call"
  /\ LET params == GenerateParams(fn.m, fn.line_fmt, 2, 1)
     IN \E order \in Orders(DOMAIN params) :
          fn' = [fn EXCEPT !.pc = "done", !.computed = DOMAIN params,
                           !.result = FormatIn(fn.line_fmt, params, order)]
  /\ UNCHANGED <<logVars, ulog>>

\* An order in which Format visits ColorMapping. Its values hold no brace
\* and no key lies inside another, so every order gives the same string.
ColorNames ==
  <<tag_nc, tag_bold, tag_italic, tag_black, tag_red, tag_green, tag_yellow,
    tag_blue, tag_magenta, tag_cyan, tag_white, tag_gray>>

\* The text side of Log::_DoEmit(level, message): the line written to
\* _output_file and the line written to std::cout.
DoEmitLines(level, message) ==
  LET message_c == FormatIn(message, (tag_lc :> _GetColor(level)), <<tag_lc>>)
  IN [to_file |-> FormatEraseTags(message),
      to_cout |-> FormatIn(message_c, ColorMapping, ColorNames)]

\* _DoEmit(level, <the generated message>) with --log_file and
\* --logtostdout set.
CallDoEmit ==
  /\ fn.op = "_GenerateLogMessage" /\ fn.pc = "done"
  /\ LET out == DoEmitLines(fn.m.level, fn.result)
     IN fn' = [fn EXCEPT !.pc = "emitted", !.to_cerr = out.to_cout,
                         !.to_file = out.to_file]
  /\ UNCHANGED <<logVars, ulog>>

NextRender == CallEmit \/ CallGenerateLogMessage \/ CallDoEmit

SpecRender == InitRender /\ [][NextRender]_vars

(***************************************************************************)
(* util::log::ScopedLog (part_004): the scope objects of one thread, which *)
(* are destroyed in the reverse order of their construction, and the       *)
(* operations on the statics they read.                                    *)
(***************************************************************************)
\* Operations made in one behaviour of SpecScope.
MaxScopeOps == 5

\* LOG_DEBUG_SCOPED(), LOG_INFO_SCOPED(), LOG_ERROR_SCOPED()
ScopeLevels == {DEBUG, INFO, ERROR}
\* The arguments given to SetMinLogLevel.
MinLevels == {DEBUG, WARNING}

\* Log::EmitFormat(level, ...) and Log::Emit(level, ...): the message goes
\* on when level >= _min_log_level, with the indent of the moment.
EmitFormat(L, level, text) ==
  IF level < L._min_log_level THEN L
  ELSE [L EXCEPT !.out = Append(@, [text |-> text, level |-> level,
                                    indent |-> L._scoped_level *
                                               scoped_logging_indent])]

\* Log::_min_log_level = INFO; int _scoped_level = 0; no scope is open.
InitScope ==
  /\ InitCpplog
  /\ fn = NoCall
  /\ fs = [p \in Paths |-> NoFile]
  /\ FLAGS = DefaultFlags
  /\ \E b \in BOOLEAN :
       ulog = [op |-> "ScopedLog", scoped_logging |-> b,
               _min_log_level |-> INFO, _scoped_level |-> 0,
               scopes |-> <<>>, out |-> <<>>, n_ops |-> 0]

\* ScopedLog::ScopedLog(level, name, line, file)
ScopedLogCtor(level) ==
  /\ ulog.op = "ScopedLog" /\ ulog.n_ops < MaxScopeOps
  /\ LET L == [ulog EXCEPT !.scopes = Append(@, level), !.n_ops = @ + 1]
     IN ulog' = IF L.scoped_logging /\ level >= L._min_log_level
                THEN [EmitFormat(L, level, "+") EXCEPT !._scoped_level = @ + 1]
                ELSE L
  /\ UNCHANGED <<logVars, fn>>

\* ScopedLog::~ScopedLog() of the innermost scope
ScopedLogDtor ==
  /\ ulog.op = "ScopedLog" /\ ulog.scopes # <<>>
  /\ LET level == ulog.scopes[Len(ulog.scopes)]
         L == [ulog EXCEPT !.scopes = SubSeq(@, 1, Len(@) - 1)]
     IN ulog' = IF L.scoped_logging /\ level >= L._min_log_level
                THEN EmitFormat([L EXCEPT !._scoped_level = @ - 1], level, "-")
                ELSE L
  /\ UNCHANGED <<logVars, fn>>

\* Log::SetMinLogLevel(level)
SetMinLogLevel(level) ==
  /\ ulog.op = "ScopedLog" /\ ulog.n_ops < MaxScopeOps
  /\ ulog' = [ulog EXCEPT !._min_log_level = level, !.n_ops = @ + 1]
  /\ UNCHANGED <<logVars, fn>>

\* FLAGS_scoped_logging = b
SetScopedLogging(b) ==
  /\ ulog.op = "ScopedLog" /\ ulog.n_ops < MaxScopeOps
  /\ ulog' = [ulog EXCEPT !.scoped_logging = b, !.n_ops = @ + 1]
  /\ UNCHANGED <<logVars, fn>>

\* LOG_INFO(...), LOG_ERROR(...)
ScopeLog(level) ==
  /\ ulog.op = "ScopedLog" /\ ulog.n_ops < MaxScopeOps
  /\ ulog' = EmitFormat([ulog EXCEPT !.n_ops = @ + 1], level, "log")
  /\ UNCHANGED <<logVars, fn>>

NextScope ==
  \/ \E level \in ScopeLevels : ScopedLogCtor(level)
  \/ ScopedLogDtor
  \/ \E level \in MinLevels : SetMinLogLevel(level)
  \/ \E b \in BOOLEAN : SetScopedLogging(b)
  \/ \E level \in {INFO, ERROR} : ScopeLog(level)

SpecScope == InitScope /\ [][NextScope]_vars

(***************************************************************************)
(* util::log::Log in asynchronous mode (part_004, --log_async, the         *)
(* default): producers in Log::_QueueMessage, the worker threads running   *)
(* Log::_ProcessQueuedMessages, the main thread in Log::Finish(), and the  *)
(* clock. One step per statement that touches shared state; gflags are     *)
(* parsed and an output is active, so that Log::Emit reaches               *)
(* _QueueMessage.                                                          *)
(***************************************************************************)
\* Log calls and ticks of the clock in one behaviour of SpecAsync.
MaxAsyncCalls == 2
MaxTicks == 1

\* The threads std::thread may be constructed for: one per producer that
\* can find _log_queue_worker == nullptr.
WorkerIds == <<"w1", "w2">>
Workers == {WorkerIds[k] : k \in 1..Len(WorkerIds)}

InitAsync ==
  /\ InitCpplog
  /\ fn = NoCall
  /\ fs = [p \in Paths |-> NoFile]
  /\ FLAGS = DefaultFlags
  /\ ulog = [op |-> "Log",
             _log_queue |-> <<>>,
             _log_queue_lock |-> NoThread,
             _log_queue_worker |-> "nullptr",
             _log_queue_finished |-> FALSE,
             ppc |-> [t \in Producers |-> "idle"],
             pmsg |-> [t \in Producers |-> 0],
             wpc |-> [w \in Workers |-> "none"],
             wmsg |-> [w \in Workers |-> 0],
             mpc |-> "run",
             now |-> 0,
             n_calls |-> 0,
             crashed |-> FALSE,
             called |-> <<>>,       \* history: [id, at] of every Log::Emit
             pushed |-> 0,          \* history: push_back calls made
             fin_mark |-> -1,       \* history: pushed when Finish() began
             out |-> <<>>]          \* the lines emitted: [id, datetime]

Alive == ulog.op = "Log" /\ ~ulog.crashed

\* The clock moves on.
Tick ==
  /\ Alive /\ ulog.now < MaxTicks
  /\ ulog' = [ulog EXCEPT !.now = @ + 1]
  /\ UNCHANGED <<logVars, fn>>

\* Log::Emit(level, line, file, message) up to the call of _QueueMessage.
LogEmit(t) ==
  /\ Alive /\ ulog.ppc[t] = "idle" /\ ulog.n_calls < MaxAsyncCalls
  /\ ulog.mpc = "run"
  /\ ulog' = [ulog EXCEPT !.n_calls = @ + 1,
                          !.pmsg[t] = ulog.n_calls + 1,
                          !.called = Append(@, [id |-> ulog.n_calls + 1,
                                                at |-> ulog.now]),
                          !.ppc[t] = "check"]
  /\ UNCHANGED <<logVars, fn>>

\* if (FLAGS_log_async && _log_queue_worker == nullptr)
QueueCheck(t) ==
  /\ Alive /\ ulog.ppc[t] = "check"
  /\ ulog' = [ulog EXCEPT !.ppc[t] = IF ulog._log_queue_worker = "nullptr"
                                     THEN "spawn" ELSE "lock"]
  /\ UNCHANGED <<logVars, fn>>

\* _log_queue_worker = new std::thread(Log::_ProcessQueuedMessages);
QueueSpawn(t) ==
  /\ Alive /\ ulog.ppc[t] = "spawn"
  /\ \E k \in 1..Len(WorkerIds) :
       /\ ulog.wpc[WorkerIds[k]] = "none"
       /\ \A j \in 1..(k - 1) : ulog.wpc[WorkerIds[j]] # "none"
       /\ ulog' = [ulog EXCEPT !._log_queue_worker = WorkerIds[k],
                               !.wpc[WorkerIds[k]] = "outer",
                               !.ppc[t] = "lock"]
  /\ UNCHANGED <<logVars, fn>>

\* _log_queue_lock.lock();
QueueLock(t) ==
  /\ Alive /\ ulog.ppc[t] = "lock" /\ ulog._log_queue_lock = NoThread
  /\ ulog' = [ulog EXCEPT !._log_queue_lock = t, !.ppc[t] = "push"]
  /\ UNCHANGED <<logVars, fn>>

\* _log_queue.push_back(...); _log_queue_lock.unlock();
QueuePush(t) ==
  /\ Alive /\ ulog.ppc[t] = "push"
  /\ ulog' = [ulog EXCEPT !._log_queue = Append(@, ulog.pmsg[t]),
                          !.pushed = @ + 1,
                          !._log_queue_lock = NoThread,
                          !.ppc[t] = "notify"]
  /\ UNCHANGED <<logVars, fn>>

\* notify_one() on wpc: one of the waiting workers, if any, is woken.
WokenBy(wpc) ==
  IF \E w \in Workers : wpc[w] = "waiting"
  THEN {[wpc EXCEPT ![w] = "pred"] : w \in {u \in Workers : wpc[u] = "waiting"}}
  ELSE {wpc}

\* _log_queue_notify.notify_one(); and the return to the caller
QueueNotify(t) ==
  /\ Alive /\ ulog.ppc[t] = "notify"
  /\ \E wpc2 \in WokenBy(ulog.wpc) :
       ulog' = [ulog EXCEPT !.wpc = wpc2, !.ppc[t] = "idle"]
  /\ UNCHANGED <<logVars, fn>>

\* while (!_log_queue_finished) {
WorkerOuter(w) ==
  /\ Alive /\ ulog.wpc[w] = "outer"
  /\ ulog' = [ulog EXCEPT !.wpc[w] = IF ulog._log_queue_finished
                                     THEN "exit" ELSE "pred"]
  /\ UNCHANGED <<logVars, fn>>

\* _log_queue_notify.wait(lock, []{ return _log_queue.size() > 0; });
\* the predicate is tested; the thread blocks when it is false.
WorkerPred(w) ==
  /\ Alive /\ ulog.wpc[w] = "pred"
  /\ ulog' = [ulog EXCEPT !.wpc[w] = IF Len(ulog._log_queue) > 0
                                     THEN "inner" ELSE "waiting"]
  /\ UNCHANGED <<logVars, fn>>

\* A spurious wake-up, which the standard allows: the predicate is tested
\* again.
WorkerSpurious(w) ==
  /\ Alive /\ ulog.wpc[w] = "waiting"
  /\ ulog' = [ulog EXCEPT !.wpc[w] = "pred"]
  /\ UNCHANGED <<logVars, fn>>

\* while (!_log_queue.empty()) {
WorkerInner(w) ==
  /\ Alive /\ ulog.wpc[w] = "inner"
  /\ ulog' = [ulog EXCEPT !.wpc[w] = IF ulog._log_queue = <<>>
                                     THEN "outer" ELSE "lock"]
  /\ UNCHANGED <<logVars, fn>>

\* _log_queue_lock.lock();
WorkerLock(w) ==
  /\ Alive /\ ulog.wpc[w] = "lock" /\ ulog._log_queue_lock = NoThread
  /\ ulog' = [ulog EXCEPT !._log_queue_lock = w, !.wpc[w] = "pop"]
  /\ UNCHANGED <<logVars, fn>>

\* std::tie(...) = _log_queue.front(); _log_queue.pop_front(); unlock();
\* On an empty deque (another worker took the last message) front() is
\* undefined: the process crashes, or the worker goes on with garbage,
\* shown as message 0.
WorkerPop(w) ==
  /\ Alive /\ ulog.wpc[w] = "pop"
  /\ IF ulog._log_queue # <<>>
     THEN ulog' = [ulog EXCEPT !.wmsg[w] = Head(ulog._log_queue),
                               !._log_queue = Tail(@),
                               !._log_queue_lock = NoThread,
                               !.wpc[w] = "emit"]
     ELSE \/ ulog' = [ulog EXCEPT !.crashed = TRUE]
          \/ ulog' = [ulog EXCEPT !.wmsg[w] = 0,
                                  !._log_queue_lock = NoThread,
                                  !.wpc[w] = "emit"]
  /\ UNCHANGED <<logVars, fn>>

\* _DoEmit(level, _GenerateLogMessage(level, line, file, content));
\* {datetime} is Log::_GetDatetimeString(), which reads the clock.
WorkerEmit(w) ==
  /\ Alive /\ ulog.wpc[w] = "emit"
  /\ ulog' = [ulog EXCEPT !.out = Append(@, [id |-> ulog.wmsg[w],
                                             datetime |->
                                               _GetTimeString(ulog.now)]),
                          !.wpc[w] = "inner"]
  /\ UNCHANGED <<logVars, fn>>

\* Log::Finish(): _log_queue_finished = true;
FinishSet ==
  /\ Alive /\ ulog.mpc = "run"
  /\ \A t \in Producers : ulog.ppc[t] = "idle"
  /\ ulog' = [ulog EXCEPT !._log_queue_finished = TRUE,
                          !.fin_mark = ulog.pushed,
                          !.mpc = "notify"]
  /\ UNCHANGED <<logVars, fn>>

\* _log_queue_notify.notify_one(); if (_log_queue_worker != nullptr)
FinishNotify ==
  /\ Alive /\ ulog.mpc = "notify"
  /\ \E wpc2 \in WokenBy(ulog.wpc) :
       ulog' = [ulog EXCEPT !.wpc = wpc2,
                            !.mpc = IF ulog._log_queue_worker # "nullptr"
                                    THEN "join" ELSE "done"]
  /\ UNCHANGED <<logVars, fn>>

\* _log_queue_worker->join(); returns once that thread's function returned.
FinishJoin ==
  /\ Alive /\ ulog.mpc = "join"
  /\ ulog.wpc[ulog._log_queue_worker] = "exit"
  /\ ulog' = [ulog EXCEPT !.mpc = "done"]
  /\ UNCHANGED <<logVars, fn>>

\* The steps of a log call once it has begun.
AsyncProducerRun(t) ==
  \/ QueueCheck(t)
  \/ QueueSpawn(t)
  \/ QueueLock(t)
  \/ QueuePush(t)
  \/ QueueNotify(t)

AsyncProducer(t) ==
  \/ LogEmit(t)
  \/ AsyncProducerRun(t)

\* The steps a worker takes on its own.
AsyncWorkerRun(w) ==
  \/ WorkerOuter(w)
  \/ WorkerPred(w)
  \/ WorkerInner(w)
  \/ WorkerLock(w)
  \/ WorkerPop(w)
  \/ WorkerEmit(w)

AsyncWorker(w) == AsyncWorkerRun(w) \/ WorkerSpurious(w)

AsyncMain ==
  \/ FinishSet
  \/ FinishNotify
  \/ FinishJoin

NextAsync ==
  \/ \E t \in Producers : AsyncProducer(t)
  \/ \E w \in Workers : AsyncWorker(w)
  \/ AsyncMain
  \/ Tick

SpecAsync == InitAsync /\ [][NextAsync]_vars

\* Every thread that can take a step takes one in the end: a log call that
\* has begun goes on, a worker that is not blocked in wait() goes on, and
\* Finish() goes on. Nothing says that a new log call is made, that the
\* clock moves, or that a blocked worker wakes up without a notify.
FairSpecAsync ==
  /\ SpecAsync
  /\ \A t \in Producers : WF_vars(AsyncProducerRun(t))
  /\ \A w \in Workers : WF_vars(AsyncWorkerRun(w))
  /\ WF_vars(AsyncMain)

(***************************************************************************)
(* SpecNoInit: a program that logs and never calls cpplog::Init(): no      *)
(* consumer thread is started and --logfile_dir is not made. The directory *)
(* is there from an earlier run, or it is not.                             *)
(***************************************************************************)
InitNoInit ==
  /\ InitCommon
  /\ \E dir \in {NoFile, NoDir} : fs = [p \in Paths |-> dir]
  /\ \E async \in BOOLEAN, tofile \in BOOLEAN, tostderr \in BOOLEAN :
       FLAGS = [DefaultFlags EXCEPT !.async_logging = async,
                                    !.logtofile = tofile,
                                    !.logtostderr = tostderr]

ProducerNoInit(t) ==
  \/ LogCall(t)
  \/ SpinWait(t)
  \/ LockInsert(t)
  \/ PushBack(t)
  \/ Notify(t)
  \/ DoEmitEnter(t)
  \/ EmitIo(t)
  \/ Caught(t)
  \/ Uncaught(t)
  \/ Return(t)

NextNoInit == \E t \in Producers : ProducerNoInit(t)

SpecNoInit == InitNoInit /\ [][NextNoInit]_vars

\* size_t MessagesInQueue() { return LOG_MESSAGE_QUEUE.size(); }
MessagesInQueue == Len(LOG_MESSAGE_QUEUE)

\* Fair scheduling of a program that keeps its Logger guard: Init() runs,
\* every log call that has begun goes on and the consumer goes on whenever
\* it is not blocked in wait(). Nothing says that ~Logger ever runs, that
\* another log call is made or that a blocked consumer wakes up unnotified.
FairSpecRunning ==
  /\ Init /\ [][Next]_vars
  /\ WF_vars(InitCall)
  /\ WF_vars(ConsumerRun)
  /\ \A t \in Producers : WF_vars(ProducerRun(t))

(***************************************************************************)
(* SpecQueue: asynchronous mode with --async_queue_max_len=0, so that the  *)
(* log calls of a behaviour outnumber the capacity and what the producers  *)
(* add beyond it.                                                          *)
(***************************************************************************)
InitQueue ==
  /\ InitCommon
  /\ fs = [p \in Paths |-> NoFile]
  /\ FLAGS = [DefaultFlags EXCEPT !.async_logging = TRUE,
                                  !.logtostderr = TRUE,
                                  !.async_queue_max_len = 0]

ProducerQueue(t) ==
  \/ Call(t)
  \/ SpinWait(t)
  \/ LockInsert(t)
  \/ PushBack(t)
  \/ Notify(t)
  \/ Return(t)

NextQueue ==
  \/ \E t \in Producers : ProducerQueue(t)
  \/ Consumer
  \/ Main

SpecQueue == InitQueue /\ [][NextQueue]_vars

(***************************************************************************)
(* util::log::ScopedLog with --log_async (part_004): one thread opens and  *)
(* closes scopes and logs, Log::Emit queues the message, and the worker    *)
(* renders it later: Log::_GenerateLogMessage reads _scoped_level when the *)
(* worker calls it. --scoped_logging is on and every level passes the      *)
(* minimum, so that each scope counts.                                     *)
(***************************************************************************)
\* Scopes opened and lines logged in one behaviour of SpecScopeAsync.
MaxAsyncScopeOps == 3

InitScopeAsync ==
  /\ InitCpplog
  /\ fn = NoCall
  /\ fs = [p \in Paths |-> NoFile]
  /\ FLAGS = DefaultFlags
  /\ ulog = [op |-> "ScopedLogAsync", _scoped_level |-> 0, scopes |-> <<>>,
             _log_queue |-> <<>>, ppc |-> "idle", wpc |-> "idle",
             wmsg |-> [text |-> "none", scope |-> 0, at |-> 0],
             out |-> <<>>, n_ops |-> 0]

\* The innermost open scope, 0 when none is open.
Innermost(scopes) == IF scopes = <<>> THEN 0 ELSE scopes[Len(scopes)]

\* Log::EmitFormat -> Log::Emit -> _QueueMessage: the tuple pushed holds
\* level, line, file and content; `scope` and `at` (the depth at the call)
\* are history for the properties.
QueueLine(L, text, scope) ==
  [L EXCEPT !._log_queue = Append(@, [text |-> text, scope |-> scope,
                                      at |-> L._scoped_level])]

\* ScopedLog::ScopedLog: Log::EmitFormat(..., "+ %s", ...)
AsyncScopedLogCtor ==
  /\ ulog.op = "ScopedLogAsync" /\ ulog.ppc = "idle"
  /\ ulog.n_ops < MaxAsyncScopeOps
  /\ LET id == ulog.n_ops + 1
         L == [ulog EXCEPT !.scopes = Append(@, id), !.n_ops = id,
                           !.ppc = "incr"]
     IN ulog' = QueueLine(L, "+", id)
  /\ UNCHANGED <<logVars, fn>>

\* ScopedLog::ScopedLog: _scoped_level++;
AsyncScopedLogIncr ==
  /\ ulog.op = "ScopedLogAsync" /\ ulog.ppc = "incr"
  /\ ulog' = [ulog EXCEPT !._scoped_level = @ + 1, !.ppc = "idle"]
  /\ UNCHANGED <<logVars, fn>>

\* ScopedLog::~ScopedLog of the innermost scope:
\* _scoped_level--; Log::EmitFormat(..., "- %s", ...)
AsyncScopedLogDtor ==
  /\ ulog.op = "ScopedLogAsync" /\ ulog.ppc = "idle"
  /\ ulog.scopes # <<>>
  /\ LET L == [ulog EXCEPT !.scopes = SubSeq(@, 1, Len(@) - 1),
                           !._scoped_level = @ - 1]
     IN ulog' = QueueLine(L, "-", Innermost(ulog.scopes))
  /\ UNCHANGED <<logVars, fn>>

\* LOG_INFO(...) inside the scopes that are open
AsyncScopeLog ==
  /\ ulog.op = "ScopedLogAsync" /\ ulog.ppc = "idle"
  /\ ulog.n_ops < MaxAsyncScopeOps
  /\ ulog' = QueueLine([ulog EXCEPT !.n_ops = @ + 1], "log",
                       Innermost(ulog.scopes))
  /\ UNCHANGED <<logVars, fn>>

\* _ProcessQueuedMessages: front(), pop_front()
ScopeWorkerPop ==
  /\ ulog.op = "ScopedLogAsync" /\ ulog.wpc = "idle"
  /\ ulog._log_queue # <<>>
  /\ ulog' = [ulog EXCEPT !.wmsg = Head(ulog._log_queue),
                          !._log_queue = Tail(@), !.wpc = "render"]
  /\ UNCHANGED <<logVars, fn>>

\* _DoEmit(level, _GenerateLogMessage(level, line, file, content)):
\* params["indent"] is _scoped_level * FLAGS_scoped_logging_indent spaces,
\* with _scoped_level as it is now.
ScopeWorkerRender ==
  /\ ulog.op = "ScopedLogAsync" /\ ulog.wpc = "render"
  /\ ulog' = [ulog EXCEPT
                !.out = Append(@, [text |-> ulog.wmsg.text,
                                   scope |-> ulog.wmsg.scope,
                                   at |-> ulog.wmsg.at,
                                   indent |-> ulog._scoped_level *
                                                scoped_logging_indent]),
                !.wpc = "idle"]
  /\ UNCHANGED <<logVars, fn>>

NextScopeAsync ==
  \/ AsyncScopedLogCtor
  \/ AsyncScopedLogIncr
  \/ AsyncScopedLogDtor
  \/ AsyncScopeLog
  \/ ScopeWorkerPop
  \/ ScopeWorkerRender

SpecScopeAsync == InitScopeAsync /\ [][NextScopeAsync]_vars

(***************************************************************************)
(* util::log::Log, messages saved before the system is ready               *)
(* (part_004:189-210, 232-239, 279-299), with --log_async off.  Each       *)
(* thread's call is split at its reads and writes of _pre_init_messages,   *)
(* which no lock protects.  A line of out is one _DoEmit.                  *)
(***************************************************************************)
MaxSavedCalls == 3

InitSaved ==
  /\ InitCpplog
  /\ fn = NoCall
  /\ fs = [p \in Paths |-> NoFile]
  /\ FLAGS = DefaultFlags
  /\ ulog = [op |-> "Saved", ready |-> FALSE, is_null |-> TRUE,
             _pre_init_messages |-> <<>>, out |-> <<>>,
             tpc |-> [t \in Producers |-> "idle"],
             ti |-> [t \in Producers |-> 0],
             tmsg |-> [t \in Producers |-> [kind |-> "none", id |-> 0, level |-> INFO]],
             n_calls |-> 0, n_saved |-> 0, terminated |-> FALSE]

SavedRunning == ulog.op = "Saved" /\ ~ulog.terminated

\* Log::_SaveMessage, reached from Log::Emit while !IsReadyToLog()
SaveMessage(t, level) ==
  /\ SavedRunning /\ ~ulog.ready
  /\ ulog.tpc[t] = "idle" /\ ulog.n_calls < MaxSavedCalls
  /\ ulog' = [ulog EXCEPT
       !.is_null = FALSE,
       !._pre_init_messages =
          Append(@, [kind |-> "saved", id |-> ulog.n_calls + 1, level |-> level]),
       !.n_calls = @ + 1, !.n_saved = @ + 1]
  /\ UNCHANGED <<logVars, fn>>

\* gflags sets the program's invocation name: IsReadyToLog() turns true
BecomeReady ==
  /\ SavedRunning /\ ~ulog.ready
  /\ ulog' = [ulog EXCEPT !.ready = TRUE]
  /\ UNCHANGED <<logVars, fn>>

\* Log::Emit after readiness, up to the call of _EmitSavedMessages
EmitReady(t, level) ==
  /\ SavedRunning /\ ulog.ready
  /\ ulog.tpc[t] = "idle" /\ ulog.n_calls < MaxSavedCalls
  /\ ulog' = [ulog EXCEPT
       !.tpc[t] = "check",
       !.tmsg[t] = [kind |-> "post", id |-> ulog.n_calls + 1, level |-> level],
       !.n_calls = @ + 1]
  /\ UNCHANGED <<logVars, fn>>

\* _DoEmit: the line is written, and a FATAL line throws std::runtime_error
\* out of Log::Emit; the caller catches it or the program terminates.
DoEmitThrows(L, t, line, next, caught) ==
  LET W == [L EXCEPT !.out = Append(@, line)]
  IN IF line.level = FATAL
     THEN IF caught THEN [W EXCEPT !.tpc[t] = "idle"]
                    ELSE [W EXCEPT !.terminated = TRUE]
     ELSE [W EXCEPT !.tpc[t] = next]

\* _EmitSavedMessages: if (_pre_init_messages == nullptr) return;
EmitSavedCheck(t) ==
  /\ SavedRunning /\ ulog.tpc[t] = "check"
  /\ ulog' = [ulog EXCEPT !.tpc[t] = IF ulog.is_null THEN "own" ELSE "init"]
  /\ UNCHANGED <<logVars, fn>>

\* _EmitSavedMessages: the "Logging system initialized" line
EmitSavedInit(t) ==
  /\ SavedRunning /\ ulog.tpc[t] = "init"
  /\ ulog' = [DoEmitThrows(ulog, t, [kind |-> "init", id |-> 0, level |-> INFO],
                           "loop", TRUE)
                EXCEPT !.ti[t] = 1]
  /\ UNCHANGED <<logVars, fn>>

\* _EmitSavedMessages: one round of the loop over *_pre_init_messages.  The
\* vector may have been deleted by another thread: the read is then undefined.
EmitSavedLoop(t) ==
  /\ SavedRunning /\ ulog.tpc[t] = "loop"
  /\ \E caught \in BOOLEAN :
       ulog' = IF ulog.is_null
               THEN [ulog EXCEPT !.tpc[t] = "ub"]
               ELSE IF ulog.ti[t] > Len(ulog._pre_init_messages)
               THEN [ulog EXCEPT !.tpc[t] = "delete"]
               ELSE [DoEmitThrows(ulog, t, ulog._pre_init_messages[ulog.ti[t]],
                                  "loop", caught)
                       EXCEPT !.ti[t] = @ + 1]
  /\ UNCHANGED <<logVars, fn>>

\* _EmitSavedMessages: delete _pre_init_messages; _pre_init_messages = nullptr;
\* a second delete of the same vector is undefined.
EmitSavedDelete(t) ==
  /\ SavedRunning /\ ulog.tpc[t] = "delete"
  /\ ulog' = IF ulog.is_null
             THEN [ulog EXCEPT !.tpc[t] = "ub"]
             ELSE [ulog EXCEPT !.is_null = TRUE, !._pre_init_messages = <<>>,
                               !.tpc[t] = "own"]
  /\ UNCHANGED <<logVars, fn>>

\* Log::Emit: _DoEmit(level, _GenerateLogMessage(level, line, file, message))
EmitOwn(t) ==
  /\ SavedRunning /\ ulog.tpc[t] = "own"
  /\ \E caught \in BOOLEAN :
       ulog' = DoEmitThrows(ulog, t, ulog.tmsg[t], "idle", caught)
  /\ UNCHANGED <<logVars, fn>>

SavedThread(t) ==
  \/ \E level \in {INFO, FATAL} : SaveMessage(t, level)
  \/ \E level \in {INFO, FATAL} : EmitReady(t, level)
  \/ EmitSavedCheck(t)
  \/ EmitSavedInit(t)
  \/ EmitSavedLoop(t)
  \/ EmitSavedDelete(t)
  \/ EmitOwn(t)

NextSaved == BecomeReady \/ \E t \in Producers : SavedThread(t)

SpecSaved == InitSaved /\ [][NextSaved]_vars

(***************************************************************************)
(* C11: a record that some enabled sink would take reaches the sinks if    *)
(* and only if its verbosity is at most --v, for every int verbosity, the  *)
(* negative ones included.                                                 *)
(***************************************************************************)
\* Some enabled sink takes records of r's level.
WantedBySink(r) ==
  \/ FLAGS.logtostderr /\ r.level >= ConsoleThreshold
  \/ FLAGS.logtofile /\ r.level >= FileThreshold
\* r was written to the console or to some level file.
Reached(r) == InSeq(r, cerr) \/ \E i \in Levels : InSeq(r, written[i])

C11_VerbosityCeiling ==
  \A k \in 1..Len(logged) :
    WantedBySink(logged[k]) =>
      (Reached(logged[k]) <=> logged[k].verbosity <= FLAGS.v)


(***************************************************************************)
(* C12: a record logged while neither sink is enabled is never written,    *)
(* in either mode, even when the console is enabled again after            *)
(* MessagesInQueue() was read as 0 (the sequence of the speed test).       *)
(***************************************************************************)
\* In SpecSpeedTest the first DisabledCalls records are the ones logged
\* between FLAGS_logtostderr = false and FLAGS_logtostderr = true.
LoggedWhileDisabled(r) == r.id <= DisabledCalls

C12_DisabledNeverWritten ==
  \A k \in 1..Len(logged) :
    LoggedWhileDisabled(logged[k]) => ~Reached(logged[k])


(***************************************************************************)
(* C13: filtering precedes dispatch: in asynchronous mode a record that    *)
(* fails the any-sink test, the verbosity test or the severity test is     *)
(* never in the delivery queue.                                            *)
(***************************************************************************)
\* r was logged with a sink enabled, is not too verbose and is at or above
\* the threshold of an enabled sink.
PassesFilters(r) ==
  /\ ~LoggedWhileDisabled(r)
  /\ ~TooVerbose(r)
  /\ WantedBySink(r)

C13_OnlyPassingQueued ==
  FLAGS.async_logging =>
    \A k \in 1..Len(LOG_MESSAGE_QUEUE) : PassesFilters(LOG_MESSAGE_QUEUE[k])


(***************************************************************************)
(* C14: a failure of the file sink does not abort or wedge logging: the    *)
(* process is not terminated by it, and a thread that is back from its log *)
(* call does not hold the emit lock, so later calls can still emit.        *)
(***************************************************************************)
C14_IoFailureTolerated ==
  /\ \A t \in Producers : pc[t] # "terminated"
  /\ \A t \in Producers : pc[t] = "idle" => emit_lock # t


(***************************************************************************)
(* C15: parsing a name that is none of trace, debug, info, warning, error, *)
(* fatal (in any mix of cases) fails with an invalid-argument error; such  *)
(* a name is never mapped to a level.                                      *)
(***************************************************************************)
\* s spells one of the six names, each letter in either case.
IsLevelName(s) ==
  \E n \in KnownNames :
    /\ Len(s) = Len(n)
    /\ \A k \in 1..Len(n) : s[k] \in {n[k], UpperOf[n[k]]}

C15_UnknownLevelRejected ==
  (fn.op \in {"_StringToLevel", "StringToLogLevel"} /\ fn.pc = "done") =>
    (~IsLevelName(fn.arg) => fn.result.thrown)


(***************************************************************************)
(* What Format is to return: fmt read once from left to right, each        *)
(* {name} with a bound name replaced by its value, everything else kept.   *)
(***************************************************************************)
\* The bound name whose tag starts at position k of s, if any.
TagsAt(s, args, k) ==
  {n \in DOMAIN args :
     /\ k + Len(Key(n)) - 1 <= Len(s)
     /\ SubSeq(s, k, k + Len(Key(n)) - 1) = Key(n)}
RECURSIVE SubstFrom(_, _, _)
SubstFrom(s, args, k) ==
  IF k > Len(s) THEN <<>>
  ELSE IF TagsAt(s, args, k) # {}
       THEN LET n == CHOOSE n \in TagsAt(s, args, k) : TRUE
            IN args[n] \o SubstFrom(s, args, k + Len(Key(n)))
       ELSE <<s[k]>> \o SubstFrom(s, args, k + 1)
Subst(s, args) == SubstFrom(s, args, 1)

\* v contains the tag of a bound name.
HasBoundTag(v, args) == \E n \in DOMAIN args : Find(v, Key(n)) # 0
\* v contains a brace.
HasBrace(v) == \E k \in 1..Len(v) : v[k] \in {"{", "}"}
FormatDone == fn.op = "Format" /\ fn.pc = "done"

(***************************************************************************)
(* C16: Format replaces every {name} of the template whose name is bound   *)
(* with the bound value and leaves the other text, unbound tags included,  *)
(* as it is; stated for bound values without braces (C17 has the others).  *)
(***************************************************************************)
C16_FormatSubstitutes ==
  (FormatDone /\ \A n \in DOMAIN fn.args : ~HasBrace(fn.args[n])) =>
    fn.result = Subst(fn.fmt, fn.args)

(***************************************************************************)
(* C17: substitution is not recursive: when a bound value contains the tag *)
(* of a bound name, that tag is in the result as it was in the value.      *)
(***************************************************************************)
C17_NotRecursive ==
  (FormatDone /\ \E n \in DOMAIN fn.args : HasBoundTag(fn.args[n], fn.args)) =>
    fn.result = Subst(fn.fmt, fn.args)

(***************************************************************************)
(* C18: Format is total: every call returns.                               *)
(***************************************************************************)
C18_FormatTerminates == <>(fn.pc = "done")

(***************************************************************************)
(* C19: Format is deterministic: two calls with the same template and the  *)
(* same bindings return the same string, whatever order the map is         *)
(* iterated in.                                                            *)
(***************************************************************************)
C19_OrderIndependent ==
  (FormatDone /\ fn.run = 2) => fn.result = fn.first


(***************************************************************************)
(* C20: FormatEraseTags returns its argument without the characters of the *)
(* substrings that match {[A-Za-z0-9]+}, every other character kept in     *)
(* order; braces around an empty name or around other characters stay.     *)
(***************************************************************************)
\* s[i..j] is a brace, one or more letters or digits, a brace.
IsTag(s, i, j) ==
  /\ 1 <= i /\ i + 2 <= j /\ j <= Len(s)
  /\ s[i] = "{" /\ s[j] = "}"
  /\ \A k \in (i + 1)..(j - 1) : IsAlnum(s[k])
\* Position q of s lies in a substring that is a tag.
InTag(s, q) == \E i \in 1..q, j \in q..Len(s) : IsTag(s, i, j)
\* The characters of s outside every tag, from position q on.
RECURSIVE OutsideTags(_, _)
OutsideTags(s, q) ==
  IF q > Len(s) THEN <<>>
  ELSE (IF InTag(s, q) THEN <<>> ELSE <<s[q]>>) \o OutsideTags(s, q + 1)
EraseDone == fn.op = "FormatEraseTags" /\ fn.pc = "done"

C20_EraseTagsRemovesTags ==
  EraseDone => fn.result = OutsideTags(fn.arg, 1)

\* A call whose argument holds a tag, which is gone, and "{}" and "{-}",
\* which are still there or a call on "{nc}hi{bold}" returning "hi".
C20_Witness ==
  /\ EraseDone
  /\ \/ /\ fn.arg = <<"{", "}", "{", "a", "}">>
        /\ fn.result = <<"{", "}">>
     \/ /\ fn.arg = <<"{", "n", "c", "}", "h", "i", "{", "b", "o", "l", "d", "}">>
        /\ fn.result = <<"h", "i">>


(***************************************************************************)
(* C21: with maximum width W, a base name of at most W characters is shown *)
(* left-padded with spaces to W characters; a longer one whose budget      *)
(* W - (3 + 1 + len(ext) + 2) is positive is shown as the first budget     *)
(* characters of the stem, "...", the last two characters of the stem,     *)
(* ".", and the extension: W characters in all.                            *)
(***************************************************************************)
\* The name shown: the result without the colon and the line number.
ShownName ==
  SubSeq(fn.result.value, 1,
         Len(fn.result.value) - 1 - Len(LineNumberLocal(fn.line)))
\* Stem and extension as the description splits a name: at its last dot,
\* which belongs to neither.
NameExt(name) ==
  IF LastIndexOf(name, ".") = 0 THEN <<>>
  ELSE SubSeq(name, LastIndexOf(name, ".") + 1, Len(name))
NameStem(name) ==
  IF LastIndexOf(name, ".") = 0 THEN name
  ELSE SubSeq(name, 1, LastIndexOf(name, ".") - 1)
Budget(name, w) == w - (3 + 1 + Len(NameExt(name)) + 2)
Elided(name, w) ==
  LET stem == NameStem(name)
      last == IF Len(stem) < 2 THEN stem ELSE SubSeq(stem, Len(stem) - 1, Len(stem))
  IN
  SubSeq(stem, 1, IF Budget(name, w) < Len(stem) THEN Budget(name, w) ELSE Len(stem))
    \o <<".", ".", ".">> \o last
    \o <<".">> \o NameExt(name)
FilenameDone == fn.op = "_GetFilenameToDisplay" /\ fn.pc = "done"

C21_FilenameDisplay ==
  FilenameDone =>
    LET name == Filename(fn.file)
        w == fn.max_filename_len
    IN /\ ~fn.result.thrown
       /\ Len(name) <= w => ShownName = Spaces(w - Len(name)) \o name
       /\ (Len(name) > w /\ Budget(name, w) > 0) =>
            /\ ShownName = Elided(name, w)
            /\ Len(ShownName) = w


(***************************************************************************)
(* C22: rendering is lazy per tag: the value of {message}, {datetime},     *)
(* {file}, {level} or {indent} is computed only when the tag occurs in the *)
(* line template.                                                          *)
(***************************************************************************)
LazyTags == {tag_message, tag_datetime, tag_file, tag_level, tag_indent}
RenderDone == fn.op \in {"Emit", "_GenerateLogMessage"} /\ fn.pc = "done"

C22_LazyPerTag ==
  RenderDone =>
    \A t \in LazyTags : t \in fn.computed => FormatHasTag(fn.line_fmt, t)


(***************************************************************************)
(* C23: the line written to a file holds no colour or format tag and no    *)
(* escape sequence, and it is the console line without what the colour     *)
(* tags were replaced by; with colorize off the two lines are the same.    *)
(***************************************************************************)
EmitWritten ==
  fn.op = "Emit" /\ fn.pc = "done" /\ fn.to_file # NoLine /\ fn.to_cerr # NoLine
HasTag(s) == \E i \in 1..Len(s), j \in 1..Len(s) : IsTag(s, i, j)
HasEscape(s) == \E k \in 1..Len(s) : s[k] = ESC
\* s without its escape sequences: each runs from ESC to the next "m".
RECURSIVE WithoutEscapes(_, _)
WithoutEscapes(s, k) ==
  IF k > Len(s) THEN <<>>
  ELSE IF s[k] = ESC /\ \E e \in k..Len(s) : s[e] = "m"
       THEN LET e == CHOOSE e \in k..Len(s) :
                       s[e] = "m" /\ \A j \in k..(e - 1) : s[j] # "m"
            IN WithoutEscapes(s, e + 1)
       ELSE <<s[k]>> \o WithoutEscapes(s, k + 1)

C23_FileLinePlain ==
  EmitWritten =>
    /\ ~HasTag(fn.to_file)
    /\ ~HasEscape(fn.to_file)
    /\ fn.to_file = WithoutEscapes(fn.to_cerr, 1)
    /\ ~fn.colorize_output => fn.to_cerr = fn.to_file


(***************************************************************************)
(* C24: the scope-depth counter is never negative, and it is back at its   *)
(* starting value when every scope that was opened has been closed,        *)
(* whatever log calls, SetMinLogLevel calls and changes of the             *)
(* scoped-logging switch come in between.                                  *)
(***************************************************************************)
C24_ScopeDepth ==
  ulog.op = "ScopedLog" =>
    /\ ulog._scoped_level >= 0
    /\ ulog.scopes = <<>> => ulog._scoped_level = 0


(***************************************************************************)
(* C25: in asynchronous mode at most one consumer thread ever exists and   *)
(* drains the delivery queue, however the first log calls that start the   *)
(* worker interleave.                                                      *)
(***************************************************************************)
WorkersStarted == {w \in Workers : ulog.wpc[w] # "none"}

C25_OneConsumer ==
  ulog.op = "Log" => Cardinality(WorkersStarted) <= 1


(***************************************************************************)
(* C26: when Init() has not been called, in asynchronous mode no logged    *)
(* record is ever written to a sink, and in synchronous mode every record  *)
(* is written to the enabled sinks by the time its log call is over.       *)
(***************************************************************************)
\* The log call of r is over: it returned, threw, or ended the process.
CallOver(r) ==
  msg[r.by] # r \/ pc[r.by] \in {"idle", "ret", "exited", "terminated"}
NothingWritten == cerr = <<>> /\ \A i \in Levels : written[i] = <<>>
InEnabledSinks(r) ==
  /\ ToConsole(r) => InSeq(r, cerr)
  /\ FLAGS.logtofile =>
       \A i \in Levels :
         (FileThreshold <= i /\ i <= r.level) => InSeq(r, written[i])

C26_InitOnlyForAsync ==
  mpc = "start" =>
    /\ FLAGS.async_logging => NothingWritten
    /\ ~FLAGS.async_logging =>
         \A k \in 1..Len(logged) :
           CallOver(logged[k]) => InEnabledSinks(logged[k])


(***************************************************************************)
(* C27: level files are opened lazily: the file of level i is open exactly *)
(* when a record has been written to it, a step opens it only together     *)
(* with its first write, and no file below the file threshold or above the *)
(* highest level logged so far has been opened, written or created (what   *)
(* an earlier run left behind is still as it was).                         *)
(***************************************************************************)
HighestLogged ==
  IF logged = <<>> THEN TRACE - 1
  ELSE CHOOSE h \in Levels :
         /\ \E k \in 1..Len(logged) : logged[k].level = h
         /\ \A k \in 1..Len(logged) : logged[k].level <= h
Needed(i) == FileThreshold <= i /\ i <= HighestLogged
Untouched(i) ==
  /\ ~LOG_FILES[i]
  /\ written[i] = <<>>
  /\ IF fs[CurPath(i)] = NoFile THEN TRUE ELSE fs[CurPath(i)] = Leftover
  /\ fs[OldPath(i)] = NoFile

C27_LazyLevelFiles ==
  \A i \in Levels :
    /\ LOG_FILES[i] <=> written[i] # <<>>
    /\ ~Needed(i) => Untouched(i)

\* TRACE and INFO were logged with the threshold at info: the INFO file is
\* open, the files below and above it are not.
C27_Witness ==
  /\ FileThreshold = INFO
  /\ LOG_FILES[INFO] /\ written[INFO] # <<>>
  /\ \E k \in 1..Len(logged) : logged[k].level = TRACE
  /\ \A i \in Levels : i # INFO => Untouched(i)


(***************************************************************************)
(* C28: in the asynchronous path of util::log::Log the {datetime} of an    *)
(* emitted message is the time of its log call, not the time at which the  *)
(* worker renders it.                                                      *)
(***************************************************************************)
\* The clock when message id was logged.
LoggedAt(id) ==
  LET c == CHOOSE c \in {ulog.called[k] : k \in 1..Len(ulog.called)} :
             c.id = id
  IN c.at

C28_DatetimeOfCall ==
  ulog.op = "Log" =>
    \A k \in 1..Len(ulog.out) :
      ulog.out[k].id > 0 =>
        ulog.out[k].datetime = _GetTimeString(LoggedAt(ulog.out[k].id))


(***************************************************************************)
(* C29: in asynchronous mode util::log::Log::Finish() always returns, and  *)
(* when it has returned the worker has emitted every message queued before *)
(* the call, whatever their number, zero included.                         *)
(***************************************************************************)
InFinish == ulog.op = "Log" /\ ulog.mpc \in {"notify", "join"}
FinishReturned == ulog.op = "Log" /\ ulog.mpc = "done"
EmittedAll ==
  \A k \in 1..Len(ulog.called) :
    \E j \in 1..Len(ulog.out) : ulog.out[j].id = ulog.called[k].id

C29_FinishDrainsAndReturns ==
  /\ [](FinishReturned => EmittedAll)
  /\ [](InFinish => <>(FinishReturned \/ ulog.crashed))


(***************************************************************************)
(* C30: whenever MessagesInQueue() is 0, every record enqueued so far has  *)
(* been completely written to the sinks: none is still inside the          *)
(* consumer.                                                               *)
(***************************************************************************)
CompletelyWritten(r) ==
  /\ ~InSeq(r, InFlight)
  /\ ToConsole(r) => InSeq(r, cerr)
  /\ FLAGS.logtofile =>
       \A i \in Levels :
         (FileThreshold <= i /\ i <= r.level) => InSeq(r, written[i])

C30_EmptyQueueAllWritten ==
  (FLAGS.async_logging /\ ~exited /\ MessagesInQueue = 0) =>
    \A k \in 1..Len(pushed) : CompletelyWritten(pushed[k])


(***************************************************************************)
(* C31: in asynchronous mode, with the consumer started and no shutdown    *)
(* requested, every record appended to the queue is eventually written     *)
(* under fair scheduling, even if no further log call is made (unless a    *)
(* FATAL record ends the process or ~Logger begins first).                 *)
(***************************************************************************)
EventuallyWritten(k) ==
  (FLAGS.async_logging /\ Len(pushed) >= k)
    ~> (\/ Len(pushed) >= k /\ InSeq(pushed[k], cerr)
        \/ SHUTTING_DOWN
        \/ exited)

C31_NoLostWakeup == \A k \in 1..MaxRecords : EventuallyWritten(k)


(***************************************************************************)
(* C32: in asynchronous mode, with the consumer started, every log call    *)
(* below FATAL eventually returns under fair scheduling (unless the        *)
(* process ends or ~Logger begins first), and in no reachable state do all *)
(* producers wait for space while the consumer waits for a notification.   *)
(***************************************************************************)
WaitsForSpace(t) == pc[t] = "spin" /\ QueueTooLong
\* Every producer that is inside a log call waits for space, and the
\* consumer is blocked in wait().
AllWaitForSpace ==
  /\ FLAGS.async_logging /\ ~SHUTTING_DOWN /\ ~exited
  /\ \E t \in Producers : WaitsForSpace(t)
  /\ \A t \in Producers : pc[t] = "idle" \/ WaitsForSpace(t)
  /\ cpc = "blocked"
CallReturns(t) ==
  (FLAGS.async_logging /\ pc[t] # "idle" /\ msg[t].level # FATAL)
    ~> (pc[t] = "idle" \/ SHUTTING_DOWN \/ exited)

C32_CallsReturn ==
  /\ [](~AllWaitForSpace)
  /\ \A t \in Producers : CallReturns(t)


(***************************************************************************)
(* C33: in asynchronous mode with k producer threads the queue never holds *)
(* more than async_queue_max_len + k records.                              *)
(***************************************************************************)
Overshoot == Cardinality(Producers)

C33_QueueOvershootBound ==
  FLAGS.async_logging =>
    Len(LOG_MESSAGE_QUEUE) <= FLAGS.async_queue_max_len + Overshoot

\* The bound is met: every producer has pushed past the capacity test, and
\* a further log call is waiting for space.
C33_Witness ==
  /\ FLAGS.async_logging
  /\ Len(LOG_MESSAGE_QUEUE) = FLAGS.async_queue_max_len + Overshoot
  /\ \E t \in Producers : pc[t] = "spin" /\ msg[t].id > Len(LOG_MESSAGE_QUEUE)


(***************************************************************************)
(* C34: the single consumer never reads the front of, or pops from, an     *)
(* empty queue: whenever it is at front()/pop_front() under the insertion  *)
(* lock the queue holds a record, whatever the producers do between their  *)
(* size test and their push.                                               *)
(***************************************************************************)
C34_PopsNonEmpty ==
  /\ cpc = "pop" => (INSERT_LOCK = "consumer" /\ Len(LOG_MESSAGE_QUEUE) > 0)
  /\ cpc # "ub"

\* The consumer is about to pop the only record while a producer that has
\* passed the size test waits for the insertion lock.
C34_Witness ==
  /\ cpc = "pop" /\ Len(LOG_MESSAGE_QUEUE) = 1
  /\ \E t \in Producers : pc[t] = "lock"


(***************************************************************************)
(* C35: every log call at level FATAL ends in the termination of the       *)
(* process, in both modes, and only a call at level FATAL terminates it.   *)
(* Calls still running when ~Logger begins are left aside.                 *)
(***************************************************************************)
InFatalCall(t) == pc[t] # "idle" /\ msg[t].level = FATAL
ExitedByFatal == \E t \in Producers : pc[t] = "exited" /\ msg[t].level = FATAL

C35_FatalTerminates ==
  /\ [](exited => ExitedByFatal)
  /\ \A t \in Producers : InFatalCall(t) ~> (exited \/ SHUTTING_DOWN)


(***************************************************************************)
(* C36: for every source file name and every maximum width W the name      *)
(* shown before the ':' has exactly W characters: every name is padded or  *)
(* truncated to W, also when the budget of the elision is not positive and *)
(* the stem is shorter than W.                                             *)
(***************************************************************************)
C36_ExactWidth ==
  FilenameDone =>
    /\ ~fn.result.thrown
    /\ Len(ShownName) = fn.max_filename_len


(***************************************************************************)
(* C37: wherever the template has {message}, the text of the message is in *)
(* the emitted line as it was given, on the console and in the file:       *)
(* tag-like text inside it is neither substituted nor erased.              *)
(***************************************************************************)
Contains(s, sub) ==
  \E k \in 1..(Len(s) - Len(sub) + 1) : SubSeq(s, k, k + Len(sub) - 1) = sub
LinesEmitted ==
  \/ fn.op = "Emit" /\ fn.pc = "done"
  \/ fn.op = "_GenerateLogMessage" /\ fn.pc = "emitted"

C37_MessageVerbatim ==
  (LinesEmitted /\ FormatHasTag(fn.line_fmt, tag_message)) =>
    /\ fn.to_cerr # NoLine => Contains(fn.to_cerr, fn.m.msg_format)
    /\ fn.to_file # NoLine => Contains(fn.to_file, fn.m.msg_format)


(***************************************************************************)
(* C38: the {indent} of an emitted line is the scope depth at the moment   *)
(* of the log call times the indent width, also when the worker renders    *)
(* the line later; the "+" and the "-" line of one scope have the same     *)
(* indentation and a line logged inside the scope is one level deeper.     *)
(***************************************************************************)
ScopeLines == {ulog.out[k] : k \in 1..Len(ulog.out)}

C38_IndentOfCall ==
  ulog.op = "ScopedLogAsync" =>
    /\ \A l \in ScopeLines : l.indent = l.at * scoped_logging_indent
    /\ \A a, b \in ScopeLines :
         a.scope = b.scope /\ a.text = "+" =>
           /\ b.text = "-" => b.indent = a.indent
           /\ b.text = "log" => b.indent = a.indent + scoped_logging_indent


(***************************************************************************)
(* C39: the messages logged before the system is ready are emitted exactly *)
(* once each, in their original order, after the single "Logging system    *)
(* initialized" line and before every message logged after readiness,      *)
(* whichever threads make the first calls after readiness and also when a  *)
(* saved message is FATAL.                                                 *)
(***************************************************************************)
SavedOut == ulog.out

FlushUndefined == \E t \in Producers : ulog.tpc[t] = "ub"

\* a message logged after readiness has been emitted
SomePostEmitted == \E i \in 1..Len(SavedOut) : SavedOut[i].kind = "post"

C39_SavedOnceInOrder ==
  ulog.op = "Saved" =>
    /\ ~FlushUndefined
    /\ \A i, j \in 1..Len(SavedOut) :
         /\ (i < j /\ SavedOut[i].kind # "post") => SavedOut[i] # SavedOut[j]
         /\ (i < j /\ SavedOut[i].kind = "saved" /\ SavedOut[j].kind = "saved")
              => SavedOut[i].id < SavedOut[j].id
         /\ (i < j /\ SavedOut[j].kind = "init") => FALSE
         /\ (i < j /\ SavedOut[i].kind = "post") => SavedOut[j].kind = "post"
    /\ SomePostEmitted =>
         \A id \in 1..ulog.n_saved :
            \E i \in 1..Len(SavedOut) :
               SavedOut[i].kind = "saved" /\ SavedOut[i].id = id


(***************************************************************************)
(* C40: FormatEraseTags is idempotent: erasing the tags of its result      *)
(* gives the result again, that is, the result holds no substring that     *)
(* matches {[A-Za-z0-9]+}, also when a tag only forms once an inner tag    *)
(* has been removed, as in "{a{b}c}".                                      *)
(***************************************************************************)
C40_EraseIdempotent ==
  EraseDone =>
    /\ FormatEraseTags(fn.result) = fn.result
    /\ ~HasTag(fn.result)

=============================================================================
